---- MODULE Spec2Model ----
(***************************************************************************)
(* Session lifecycle, cookie synchronisation and screencast relay of the   *)
(* browser session manager (server/browserManager.ts, server/storage.ts).  *)
(*                                                                         *)
(* Every async method is a task: a record with a program counter that      *)
(* names the awaited call the method is suspended at.  One step of a task  *)
(* is the effect of that awaited call followed by the synchronous code up  *)
(* to (and including the issue of) the next awaited call, which is how the *)
(* single-threaded event loop runs the handlers.                           *)
(***************************************************************************)
EXTENDS Integers, Sequences, FiniteSets, TLC

\* ------------------------------------------------------------------ bounds
MaxTasks == 2       \* async calls in flight at the same time
MaxEngines == 2     \* engine processes the host can launch before launch fails
MaxFaults == 1      \* injected failures of engine / storage calls per run
MaxFrames == 2      \* frames an engine captures per run
MaxEvents == 2      \* messages the viewers send per run

\* --------------------------------------------------------------- universe
Ids == {"s1", "s2"}
Tasks == 1..MaxTasks
Statuses == {"stopped", "running", "paused", "error"}

\* ---------------------------------------------------------------- cookies
\* An absent (null / undefined) value is <<>>, a present one <<v>>.
None == <<>>
Some(v) == <<v>>

\* Expiry times are integers in microseconds; the engine reports seconds
\* with a fraction, and -1 second for a cookie without expiry.
UsPerMs == 1000
SessionExpiry == -1000000

CookieA ==
  [name |-> "sid", value |-> "a", domain |-> "example.com", path |-> "/",
   expires |-> SessionExpiry, httpOnly |-> FALSE, secure |-> FALSE,
   sameSite |-> None]

CookieB ==
  [name |-> "tok", value |-> "b", domain |-> ".example.com", path |-> "/app",
   expires |-> 5000500, httpOnly |-> TRUE, secure |-> TRUE,
   sameSite |-> Some("Lax")]

Universe == {CookieA, CookieB}

\* new Date(x): the time value is truncated to whole milliseconds.
DateMs(us) == IF us >= 0 THEN us \div UsPerMs ELSE -((-us) \div UsPerMs)

\* v || null for a string, v || false for a flag.
OrNull(s) == IF s = "" THEN None ELSE Some(s)

\* saveCookies: the row createCookie receives for one engine cookie.
ToStored(c) ==
  [name |-> c.name, value |-> c.value, domain |-> OrNull(c.domain),
   path |-> OrNull(c.path),
   expires |-> IF c.expires = 0 THEN None ELSE Some(DateMs(c.expires)),
   httpOnly |-> c.httpOnly, secure |-> c.secure, sameSite |-> c.sameSite]

\* startSession: the parameter page.setCookie receives for one stored row.
ToParamNoExpiry(r) ==
  [name |-> r.name, value |-> r.value, domain |-> r.domain, path |-> r.path,
   expires |-> None,
   httpOnly |-> IF r.httpOnly THEN Some(TRUE) ELSE None,
   secure |-> IF r.secure THEN Some(TRUE) ELSE None,
   sameSite |-> r.sameSite]

ToParam(r) ==
  [name |-> r.name, value |-> r.value, domain |-> r.domain, path |-> r.path,
   expires |-> IF r.expires = None THEN None ELSE Some(r.expires[1] * UsPerMs),
   httpOnly |-> IF r.httpOnly THEN Some(TRUE) ELSE None,
   secure |-> IF r.secure THEN Some(TRUE) ELSE None,
   sameSite |-> r.sameSite]

\* The engine's reading of a setCookie parameter: absent fields take the
\* engine's defaults.
FromParam(p) ==
  [name |-> p.name, value |-> p.value,
   domain |-> IF p.domain = None THEN "" ELSE p.domain[1],
   path |-> IF p.path = None THEN "/" ELSE p.path[1],
   expires |-> IF p.expires = None THEN SessionExpiry ELSE p.expires[1],
   httpOnly |-> p.httpOnly # None, secure |-> p.secure # None,
   sameSite |-> p.sameSite]

\* cookies.map(...): the parameters for the rows, in their order.
ToParams(rows) == [i \in 1..Len(rows) |-> ToParam(rows[i])]
Range(s) == {s[i] : i \in 1..Len(s)}

\* The jar holds one cookie per (name, domain, path).
CookieKey(c) == <<c.name, c.domain, c.path>>
JarPut(jar, c) == {x \in jar : CookieKey(x) # CookieKey(c)} \cup {c}

RECURSIVE JarPutAll(_, _)
JarPutAll(jar, ps) ==
  IF ps = <<>> THEN jar ELSE JarPutAll(JarPut(jar, FromParam(Head(ps))), Tail(ps))

\* page.cookies(): the jar as an array, in the engine's (name) order.
RECURSIVE JarSeq(_)
JarSeq(jar) ==
  IF jar = {} THEN <<>>
  ELSE LET c == CHOOSE x \in jar : \A y \in jar : x.name = "sid" \/ y.name # "sid"
       IN <<c>> \o JarSeq(jar \ {c})

\* ---------------------------------------------------------- session store
\* updateBrowserSession(id, {status}), clearSessionCookies(id) and
\* createCookie(row) on the store's tables.
Persist(st, id, v) == [st EXCEPT ![id] = v]
ClearKeep(rows, id) == rows
ClearEverySession(rows, id) == [i \in Ids |-> <<>>]
ClearSessionCookies(rows, id) == [rows EXCEPT ![id] = <<>>]
CreateCookie(rows, id, row) == [rows EXCEPT ![id] = Append(@, row)]

\* --------------------------------------------------------------- registry
\* activeBrowsers: Map<sessionId, handle>, kept as its set of entries.  The
\* handle object is the engine it wraps: eng indexes engines.
MapHas(reg, id) == \E h \in reg : h.sid = id
MapGetAny(reg, id) == CHOOSE h \in reg : TRUE
MapGet(reg, id) == CHOOSE h \in reg : h.sid = id
MapDeleteNothing(reg, id) == reg
MapDelete(reg, id) == {h \in reg : h.sid # id}
MapSetKeepOld(reg, id, e) == reg \cup {[sid |-> id, eng |-> e]}
MapSet(reg, id, e) == MapDelete(reg, id) \cup {[sid |-> id, eng |-> e]}

\* ------------------------------------------------------------------ state
Conns == {"w1", "w2"}

VARIABLES
  status,     \* Session Store: the persisted status of each session
  stored,     \* Session Store: each session's cookie rows, in insertion order
  registry,   \* activeBrowsers
  engines,    \* every engine process launched so far, in launch order, with
              \* the fields of the handle that wraps it
  timers,     \* the live setInterval timers of setupPeriodicCookieSave
  conn,       \* the viewer connections
  tasks,      \* the async calls in flight
  faults,     \* failures injected so far
  limit,      \* how many calls the callers keep in flight at the same time
  up,         \* the server process is running (FALSE after process.exit)
  synced,     \* history: what the last completed saveCookies of a session read
  last,       \* history, with one call at a time: the call that returned
              \* last, until the next call is made
  relay,      \* the frames captured so far and the frame handlers in flight
  rx,         \* the frames each viewer connection has received, in order
  inbox,      \* the messages a viewer has sent that the server has not handled
  input,      \* the viewer messages that arrived and the engine calls issued
  url         \* Session Store: the URL of each session

relayVars == <<relay, rx, inbox, input>>

vars ==
  <<status, stored, registry, engines, timers, conn, tasks, faults, limit, up,
    synced, last, relay, rx, inbox, input, url>>

\* A viewer message that arrived at the server: k is its place in the order
\* of arrival, x and y the rounded coordinates; history: the position at and
\* the size surf of the viewer's surface the event comes from.
NoPoint == [x |-> 0, y |-> 0]
NoSurface == [w |-> 1, h |-> 1]
NoEvent ==
  [k |-> 0, type |-> "none", x |-> 0, y |-> 0, at |-> NoPoint, surf |-> NoSurface]

\* ws.close(code, reason): 1008 is the policy violation code, 1011 the
\* internal error code of the protocol.
PolicyViolation == 1008
InternalError == 1011

\* A viewer connection that has not reached the server: st is the state of
\* the socket and of the handler's work on it, sid the session id of its
\* request, user the identity of its request ("anon" without one); code is
\* the close code the server has sent, 0 for none; history: cause tells why
\* the server has closed it.
NoConn ==
  [st |-> "new", sid |-> "none", user |-> "anon", code |-> 0, cause |-> "none"]

Idle ==
  [op |-> "none", sid |-> "none", pc |-> "idle", eng |-> 0, harv |-> <<>>,
   idx |-> 0, imp |-> <<>>, ret |-> "none", res |-> "none", todo |-> <<>>,
   log |-> <<>>, ws |-> "none", chan |-> 0, ev |-> NoEvent, msg |-> ""]

NoReturn ==
  [op |-> "none", sid |-> "none", res |-> "none", from |-> "none", eng |-> 0,
   log |-> <<>>, ws |-> "none", msg |-> ""]

\* The relay before the first frame: shot counts the frames captured, pend
\* holds the frame handlers that await their acknowledgement, oldest first;
\* history: acked and fwded are the frames whose acknowledgement was issued
\* and that were forwarded, lost the sends <<frame, viewer>> that threw.
NoRelay ==
  [shot |-> 0, pend |-> <<>>, acked |-> {}, fwded |-> {}, lost |-> {}]

NoSync == [read |-> <<>>, ok |-> TRUE, again |-> FALSE, by |-> "none"]

InFlight(t) == tasks[t].pc # "idle"

\* A call can be made: it takes the first free slot.
Free(t) ==
  /\ up
  /\ ~InFlight(t)
  /\ \A u \in 1..(t - 1) : InFlight(u)
  /\ Cardinality({u \in Tasks : InFlight(u)}) < limit

Engines == 1..Len(engines)
Alive(e) == e \in Engines /\ engines[e].alive

\* A call to the store, a launch or close of an engine process, a navigation
\* or a cookie import fails when the engine it addresses is gone, and may
\* fail for a reason of its own (timeout, resources, database or validation
\* error) while the fault budget lasts.
Outcomes(mustFail) ==
  IF mustFail THEN {FALSE}
  ELSE IF faults < MaxFaults THEN {TRUE, FALSE} ELSE {TRUE}
Charge(ok, mustFail) == IF ok \/ mustFail THEN faults ELSE faults + 1

\* A command to a live page or to an open control channel is carried out;
\* it is rejected when its target is gone.
Answers(gone) == {~gone}

\* session.url: s2 has none and is sent to about:blank.
Url == [id \in Ids |-> IF id = "s1" THEN "https://example.com/app" ELSE ""]

\* The process has started with an empty registry; the sessions of ids were
\* left "running" or "stopped" by the previous run, the others "stopped".  n
\* calls may be in flight together.
Boot(n, ids) ==
  /\ status \in {[id \in Ids |-> IF id \in run THEN "running" ELSE "stopped"] :
                   run \in SUBSET ids}
  /\ stored = [id \in Ids |-> <<>>]
  /\ registry = {}
  /\ engines = <<>>
  /\ timers = {}
  /\ conn = [w \in Conns |-> NoConn]
  /\ tasks = [t \in Tasks |-> Idle]
  /\ faults = 0
  /\ limit = n
  /\ up = TRUE
  /\ synced = [id \in Ids |-> NoSync]
  /\ last = NoReturn
  /\ relay = NoRelay
  /\ rx = [w \in Conns |-> <<>>]
  /\ inbox = [w \in Conns |-> <<>>]
  /\ input = [arrived |-> 0, calls |-> <<>>, unheard |-> [w \in Conns |-> 0]]
  /\ url = Url

Start(n) == Boot(n, {"s1"})

Init == Start(MaxTasks)

InitSeq == Start(1)

\* Every session may have been left "running".
InitBoot == Boot(1, Ids)

\* ------------------------------------------------------- task bookkeeping
\* The record of a call that has returned (res = "ok") or thrown ("err").
Done(tk, res) == [tk EXCEPT !.pc = "done", !.res = res]

\* const instance = activeBrowsers.get(sessionId);
\* if (!instance) throw new Error("Session not running")
ReturnsQuietly(tk) == Done(tk, "ok")
NotRunning(tk) == Done([tk EXCEPT !.msg = "Session not running"], "err")

\* startSession entered for id by task record tk: the registry check, then
\* the session record is requested.
EnterStart(tk, id, reg) ==
  IF MapHas(reg, id) THEN Done([tk EXCEPT !.sid = id, !.eng = 0], "ok")
  ELSE [tk EXCEPT !.sid = id, !.pc = "st_get", !.eng = 0]

\* restoreRunningSessions: the for loop over the sessions to restore; a
\* start that returns at once lets the loop go on to the next session.
\* History: log lists the sessions startSession was called for.
RECURSIVE RestoreLoop(_, _)
RestoreLoop(tk, reg) ==
  IF tk.todo = <<>> THEN Done(tk, "ok")
  ELSE LET id == Head(tk.todo)
           nx == [tk EXCEPT !.todo = Tail(tk.todo), !.log = Append(tk.log, id)]
       IN IF MapHas(reg, id) THEN RestoreLoop([nx EXCEPT !.sid = id], reg)
          ELSE EnterStart(nx, id, reg)

\* A call returns or throws.  Inside restoreRunningSessions the error of a
\* start is caught and the loop goes on; inside the connection handler the
\* handler goes on with the outcome of the start.
Finish(tk, res, reg) ==
  IF tk.op = "restore" THEN RestoreLoop(tk, reg)
  ELSE IF tk.op = "connect" THEN [tk EXCEPT !.pc = "ws_started", !.res = res]
  ELSE Done(tk, res)

\* The step of slot t ends with its record nt: a call that has returned
\* frees the slot and is remembered as the last return.
Commit(t, nt) ==
  /\ tasks' = [tasks EXCEPT ![t] = IF nt.pc = "done" THEN Idle ELSE nt]
  /\ last' = IF limit > 1 THEN last
             ELSE IF nt.pc = "done"
             THEN [op |-> nt.op, sid |-> nt.sid, res |-> nt.res,
                   from |-> tasks[t].pc, eng |-> nt.eng, log |-> nt.log,
                   ws |-> nt.ws, msg |-> nt.msg]
             ELSE IF tasks[t].pc = "idle" THEN NoReturn ELSE last

NewTask(op, id) == [Idle EXCEPT !.op = op, !.sid = id]

\* saveCookies(sessionId, page) is entered: page.cookies() is requested; ret
\* names where the caller goes on when saveCookies has returned.
EnterSync(tk, e, ret) ==
  [tk EXCEPT !.pc = "sc_harvest", !.eng = e, !.ret = ret, !.harv = <<>>, !.idx = 0]

\* saveCookies has returned (it never throws): the caller's code up to its
\* next awaited call.
AfterSync(tk, reg) ==
  LET nt == [tk EXCEPT !.harv = <<>>, !.idx = 0, !.ret = "none"] IN
  CASE tk.ret = "st_register" ->
         \* activeBrowsers.set(sessionId, ...), then updateBrowserSession
         [task |-> [nt EXCEPT !.pc = "st_running"],
          reg |-> MapSet(reg, tk.sid, tk.eng)]
    [] tk.ret = "pa_update" -> [task |-> [nt EXCEPT !.pc = "pa_update"], reg |-> reg]
    [] tk.ret = "sp_close" ->
         [task |-> [nt EXCEPT !.pc = "sp_close", !.log = Append(tk.log, "sync")],
          reg |-> reg]
    [] tk.ret = "cl_close" -> [task |-> [nt EXCEPT !.pc = "cl_close"], reg |-> reg]
    [] OTHER -> [task |-> Finish(nt, "ok", reg), reg |-> reg]

\* History: the saveCookies of tk has written its last row; one that stops
\* after the first write leaves the rows of sy incomplete.  Which call made
\* the synchronisation, and whether it repeated the previous one, is kept
\* while the calls are made one at a time.
SyncDone(sy, tk) ==
  [read |-> tk.harv, ok |-> TRUE,
   again |-> limit = 1 /\ sy.ok /\ sy.by # "none" /\ sy.read = tk.harv,
   by |-> IF limit = 1 THEN tk.op ELSE "none"]

SyncBroken(sy, tk) == IF limit = 1 THEN [sy EXCEPT !.ok = FALSE] ELSE sy

\* catch (error) { console.error(...) }: an awaited call of saveCookies was
\* rejected; saveCookies returns to its caller all the same.
SyncThrown(tk, reg) == [task |-> Finish(tk, "err", reg), reg |-> reg]
SyncCaught(tk, reg) == AfterSync(tk, reg)

\* ------------------------------------------------------------ saveCookies
\* const puppeteerCookies = await page.cookies()
ScHarvest(t) ==
  LET tk == tasks[t] IN
  /\ tk.pc = "sc_harvest"
  /\ \E ok \in Answers(~Alive(tk.eng)) :
       LET r == IF ok
                THEN [task |-> [tk EXCEPT !.pc = "sc_clear",
                                          !.harv = JarSeq(engines[tk.eng].jar)],
                      reg |-> registry]
                ELSE SyncCaught(tk, registry)
       IN /\ registry' = r.reg
          /\ Commit(t, r.task)
  /\ UNCHANGED <<status, stored, engines, timers, conn, faults, limit, up,
                 synced, relayVars, url>>

\* await storage.clearSessionCookies(sessionId)
ScClear(t) ==
  LET tk == tasks[t] IN
  /\ tk.pc = "sc_clear"
  /\ \E ok \in Outcomes(FALSE) :
       LET r == IF ~ok THEN SyncCaught(tk, registry)
                ELSE IF tk.harv # <<>>
                THEN [task |-> [tk EXCEPT !.pc = "sc_insert"], reg |-> registry]
                ELSE AfterSync(tk, registry)
       IN /\ faults' = Charge(ok, FALSE)
          /\ stored' = IF ok THEN ClearSessionCookies(stored, tk.sid) ELSE stored
          /\ synced' = IF ok /\ tk.harv = <<>>
                       THEN [synced EXCEPT ![tk.sid] = SyncDone(@, tk)]
                       ELSE synced
          /\ registry' = r.reg
          /\ Commit(t, r.task)
  /\ UNCHANGED <<status, engines, timers, conn, limit, up, relayVars, url>>

\* await storage.createCookie({...}) for the next harvested cookie
ScInsert(t) ==
  LET tk == tasks[t]
      i == tk.idx + 1
  IN
  /\ tk.pc = "sc_insert"
  /\ \E ok \in Outcomes(FALSE) :
       LET r == IF ~ok THEN SyncCaught(tk, registry)
                ELSE IF i < Len(tk.harv)
                THEN [task |-> [tk EXCEPT !.idx = i], reg |-> registry]
                ELSE AfterSync(tk, registry)
       IN /\ faults' = Charge(ok, FALSE)
          /\ stored' = IF ok THEN CreateCookie(stored, tk.sid, ToStored(tk.harv[i]))
                       ELSE stored
          /\ synced' = [synced EXCEPT ![tk.sid] =
                          IF ~ok THEN SyncBroken(@, tk)
                          ELSE IF i = Len(tk.harv) THEN SyncDone(@, tk) ELSE @]
          /\ registry' = r.reg
          /\ Commit(t, r.task)
  /\ UNCHANGED <<status, engines, timers, conn, limit, up, relayVars, url>>

\* ----------------------------------------------------------- startSession
\* A launched engine with its page, and the fields of the handle that is
\* built for it: cdpSession (cdp) and streamClients (clients); nav: the page
\* has navigated to the session's URL; nchan: the control channels created
\* on the page so far; chans: those that are open; casting: those on which
\* capture runs.
NewEngine(id) ==
  [sid |-> id, alive |-> TRUE, nav |-> FALSE, jar |-> {}, cdp |-> 0,
   clients |-> {}, nchan |-> 0, chans |-> {}, casting |-> {}]

\* The catch block of startSession is entered: status "error" is requested.
CatchStart(tk) == [tk EXCEPT !.pc = "st_error", !.imp = <<>>]

StartSession(t, id) ==
  /\ Free(t)
  /\ Commit(t, EnterStart(NewTask("start", id), id, registry))
  /\ UNCHANGED <<status, stored, registry, engines, timers, conn, faults,
                 limit, up, synced, relayVars, url>>

\* const session = await storage.getBrowserSession(sessionId); a failure
\* here is thrown before the try block.  Then puppeteer.launch is requested.
StGet(t) ==
  LET tk == tasks[t] IN
  /\ tk.pc = "st_get"
  /\ \E ok \in Outcomes(FALSE) :
       /\ faults' = Charge(ok, FALSE)
       /\ Commit(t, IF ok THEN [tk EXCEPT !.pc = "st_launch"]
                    ELSE Finish(tk, "err", registry))
  /\ UNCHANGED <<status, stored, registry, engines, timers, conn, limit, up,
                 synced, relayVars, url>>

\* puppeteer.launch, browser.newPage, page.setViewport, page.setUserAgent.
\* The launch fails when the host is out of engine processes; any of the
\* calls may fail: "launch" leaves no process, "setup" leaves the launched
\* process behind.  Then getSessionCookies is requested.
LaunchOutcomes ==
  IF Len(engines) >= MaxEngines THEN {"launch"}
  ELSE IF faults < MaxFaults THEN {"ok", "launch", "setup"} ELSE {"ok"}

StLaunch(t) ==
  LET tk == tasks[t] IN
  /\ tk.pc = "st_launch"
  /\ \E o \in LaunchOutcomes :
       /\ faults' = IF o = "ok" \/ Len(engines) >= MaxEngines THEN faults
                    ELSE faults + 1
       /\ engines' = IF o = "launch" THEN engines
                     ELSE Append(engines, NewEngine(tk.sid))
       /\ Commit(t, CASE o = "ok" ->
                           [tk EXCEPT !.pc = "st_load", !.eng = Len(engines) + 1]
                      [] o = "setup" ->
                           CatchStart([tk EXCEPT !.eng = Len(engines) + 1])
                      [] OTHER -> CatchStart(tk))
  /\ UNCHANGED <<status, stored, registry, timers, conn, limit, up, synced,
                 relayVars, url>>

\* const cookies = await storage.getSessionCookies(sessionId); the rows are
\* mapped to setCookie parameters; with no row, page.goto is requested.
StLoad(t) ==
  LET tk == tasks[t] IN
  /\ tk.pc = "st_load"
  /\ \E ok \in Outcomes(FALSE) :
       /\ faults' = Charge(ok, FALSE)
       /\ Commit(t, IF ~ok THEN CatchStart(tk)
                    ELSE IF Len(stored[tk.sid]) > 0
                    THEN [tk EXCEPT !.pc = "st_import",
                                    !.imp = ToParams(stored[tk.sid])]
                    ELSE [tk EXCEPT !.pc = "st_goto"])
  /\ UNCHANGED <<status, stored, registry, engines, timers, conn, limit, up,
                 synced, relayVars, url>>

\* await page.setCookie(...puppeteerCookies); then page.goto is requested.
StImport(t) ==
  LET tk == tasks[t] IN
  /\ tk.pc = "st_import"
  /\ \E ok \in Outcomes(~Alive(tk.eng)) :
       /\ faults' = Charge(ok, ~Alive(tk.eng))
       /\ engines' = IF ok
                     THEN [engines EXCEPT ![tk.eng].jar = JarPutAll(@, tk.imp)]
                     ELSE engines
       /\ Commit(t, IF ok THEN [tk EXCEPT !.pc = "st_goto"] ELSE CatchStart(tk))
  /\ UNCHANGED <<status, stored, registry, timers, conn, limit, up, synced,
                 relayVars, url>>

\* History: the navigation of call tk has timed out or was rejected.
TimedOut(tk) == [tk EXCEPT !.log = Append(@, "timeout")]

\* await page.goto(...), bounded by its timeout; then saveCookies.
StGoto(t) ==
  LET tk == tasks[t] IN
  /\ tk.pc = "st_goto"
  /\ \E ok \in Outcomes(~Alive(tk.eng)) :
       /\ faults' = Charge(ok, ~Alive(tk.eng))
       /\ engines' = IF ok THEN [engines EXCEPT ![tk.eng].nav = TRUE] ELSE engines
       /\ Commit(t, IF ok THEN EnterSync([tk EXCEPT !.imp = <<>>], tk.eng, "st_register")
                    ELSE CatchStart(TimedOut(tk)))
  /\ UNCHANGED <<status, stored, registry, timers, conn, limit, up, synced,
                 relayVars, url>>

\* await storage.updateBrowserSession(sessionId, {status: "running"}), then
\* setupPeriodicCookieSave(sessionId, page): setInterval.
StRunning(t) ==
  LET tk == tasks[t] IN
  /\ tk.pc = "st_running"
  /\ \E ok \in Outcomes(FALSE) :
       /\ faults' = Charge(ok, FALSE)
       /\ status' = IF ok THEN Persist(status, tk.sid, "running") ELSE status
       /\ timers' = IF ok THEN timers \cup {[sid |-> tk.sid, eng |-> tk.eng]}
                    ELSE timers
       /\ Commit(t, IF ok THEN Finish(tk, "ok", registry) ELSE CatchStart(tk))
  /\ UNCHANGED <<stored, registry, engines, conn, limit, up, synced,
                 relayVars, url>>

\* catch: await storage.updateBrowserSession(sessionId, {status: "error"});
\* throw error.  When the update fails, its error is thrown instead.
StError(t) ==
  LET tk == tasks[t] IN
  /\ tk.pc = "st_error"
  /\ \E ok \in Outcomes(FALSE) :
       /\ faults' = Charge(ok, FALSE)
       /\ status' = IF ok THEN Persist(status, tk.sid, "error") ELSE status
       /\ Commit(t, Finish(tk, "err", registry))
  /\ UNCHANGED <<stored, registry, engines, timers, conn, limit, up, synced,
                 relayVars, url>>

\* ----------------------------------------------------------- pauseSession
\* No handle: throw.  Else saveCookies, then the update to "paused".
EnterPauseClosing(id, reg) ==
  IF MapHas(reg, id)
  THEN EnterSync(NewTask("pause", id), MapGet(reg, id).eng, "sp_close")
  ELSE NotRunning(NewTask("pause", id))

EnterPause(id, reg) ==
  IF MapHas(reg, id)
  THEN EnterSync(NewTask("pause", id), MapGet(reg, id).eng, "pa_update")
  ELSE NotRunning(NewTask("pause", id))

PauseSession(t, id) ==
  /\ Free(t)
  /\ Commit(t, EnterPause(id, registry))
  /\ UNCHANGED <<status, stored, registry, engines, timers, conn, faults,
                 limit, up, synced, relayVars, url>>

\* await storage.updateBrowserSession(sessionId, {status: "paused"})
PaUpdate(t) ==
  LET tk == tasks[t] IN
  /\ tk.pc = "pa_update"
  /\ \E ok \in Outcomes(FALSE) :
       /\ faults' = Charge(ok, FALSE)
       /\ status' = IF ok THEN Persist(status, tk.sid, "paused") ELSE status
       /\ Commit(t, Finish(tk, IF ok THEN "ok" ELSE "err", registry))
  /\ UNCHANGED <<stored, registry, engines, timers, conn, limit, up, synced,
                 relayVars, url>>

\* ------------------------------------------------------------ stopSession
\* No handle: only the update to "stopped".  Else saveCookies first.
EnterStopReturn(id, reg) ==
  IF MapHas(reg, id)
  THEN EnterSync(NewTask("stop", id), MapGet(reg, id).eng, "sp_close")
  ELSE Done(NewTask("stop", id), "ok")

EnterStop(id, reg) ==
  IF MapHas(reg, id)
  THEN EnterSync(NewTask("stop", id), MapGet(reg, id).eng, "sp_close")
  ELSE [NewTask("stop", id) EXCEPT !.pc = "sp_nohandle"]

StopSession(t, id) ==
  /\ Free(t)
  /\ Commit(t, EnterStop(id, registry))
  /\ UNCHANGED <<status, stored, registry, engines, timers, conn, faults,
                 limit, up, synced, relayVars, url>>

\* no handle: await storage.updateBrowserSession(sessionId, {status: "stopped"})
SpNoHandle(t) ==
  LET tk == tasks[t] IN
  /\ tk.pc = "sp_nohandle"
  /\ \E ok \in Outcomes(FALSE) :
       /\ faults' = Charge(ok, FALSE)
       /\ status' = IF ok THEN Persist(status, tk.sid, "stopped") ELSE status
       /\ Commit(t, Finish(tk, IF ok THEN "ok" ELSE "err", registry))
  /\ UNCHANGED <<stored, registry, engines, timers, conn, limit, up, synced,
                 relayVars, url>>

\* browser.close(): the process ends, and with it its page, its jar and its
\* control channels.
CloseEngine(es, e) ==
  [es EXCEPT ![e].alive = FALSE, ![e].jar = {}, ![e].chans = {},
             ![e].casting = {}]

\* await instance.browser.close(); activeBrowsers.delete(sessionId); then
\* the update to "stopped" is requested.  A failing close is thrown.
SpClose(t) ==
  LET tk == tasks[t] IN
  /\ tk.pc = "sp_close"
  /\ \E ok \in Outcomes(FALSE) :
       /\ faults' = Charge(ok, FALSE)
       /\ engines' = IF ok THEN CloseEngine(engines, tk.eng) ELSE engines
       /\ registry' = IF ok THEN MapDelete(registry, tk.sid) ELSE registry
       /\ Commit(t, IF ok
                    THEN [tk EXCEPT !.pc = "sp_update",
                                    !.log = tk.log \o <<"close", "release">>]
                    ELSE Finish(tk, "err", registry))
  /\ UNCHANGED <<status, stored, timers, conn, limit, up, synced, relayVars, url>>

\* await storage.updateBrowserSession(sessionId, {status: "stopped"})
SpUpdate(t) ==
  LET tk == tasks[t] IN
  /\ tk.pc = "sp_update"
  /\ \E ok \in Outcomes(FALSE) :
       /\ faults' = Charge(ok, FALSE)
       /\ status' = IF ok THEN Persist(status, tk.sid, "stopped") ELSE status
       /\ Commit(t, IF ok THEN Finish([tk EXCEPT !.log = Append(tk.log, "persist")],
                                      "ok", registry)
                    ELSE Finish(tk, "err", registry))
  /\ UNCHANGED <<stored, registry, engines, timers, conn, limit, up, synced,
                 relayVars, url>>

\* ---------------------------------------------------------- resumeSession
\* No handle: return startSession(sessionId).  Else the update to "running".
EnterResume(id, reg) ==
  IF MapHas(reg, id)
  THEN [NewTask("resume", id) EXCEPT !.pc = "rs_update",
                                     !.eng = MapGet(reg, id).eng]
  ELSE EnterStart(NewTask("resume", id), id, reg)

ResumeSession(t, id) ==
  /\ Free(t)
  /\ Commit(t, EnterResume(id, registry))
  /\ UNCHANGED <<status, stored, registry, engines, timers, conn, faults,
                 limit, up, synced, relayVars, url>>

\* await storage.updateBrowserSession(sessionId, {status: "running"})
RsUpdate(t) ==
  LET tk == tasks[t] IN
  /\ tk.pc = "rs_update"
  /\ \E ok \in Outcomes(FALSE) :
       /\ faults' = Charge(ok, FALSE)
       /\ status' = IF ok THEN Persist(status, tk.sid, "running") ELSE status
       /\ Commit(t, Finish(tk, IF ok THEN "ok" ELSE "err", registry))
  /\ UNCHANGED <<stored, registry, engines, timers, conn, limit, up, synced,
                 relayVars, url>>

\* ---------------------------------------------------------------- clickAt
\* The click has been applied to the page of engine e: saveCookies is next.
AfterClickReturn(tk, e) == Done(tk, "ok")
AfterClick(tk, e) == EnterSync(tk, e, "done")

ClickAt(t, id) ==
  /\ Free(t)
  /\ Commit(t, IF MapHas(registry, id)
               THEN [NewTask("click", id) EXCEPT !.pc = "ck_click",
                                                 !.eng = MapGet(registry, id).eng]
               ELSE NotRunning(NewTask("click", id)))
  /\ UNCHANGED <<status, stored, registry, engines, timers, conn, faults,
                 limit, up, synced, relayVars, url>>

\* await instance.page.mouse.click(x, y); then saveCookies.
CkClick(t) ==
  LET tk == tasks[t] IN
  /\ tk.pc = "ck_click"
  /\ \E ok \in Answers(~Alive(tk.eng)) :
       Commit(t, IF ok
                 THEN AfterClick([tk EXCEPT !.log = Append(@, "click")], tk.eng)
                 ELSE Finish(tk, "err", registry))
  /\ UNCHANGED <<status, stored, registry, engines, timers, conn, faults,
                 limit, up, synced, relayVars, url>>

\* ------------------------------------------ navigation and page operations
\* The URL a caller navigates a session to.
Target == "https://example.com/next"

\* An operation on the page of a registered handle is entered: no handle,
\* throw; else its first awaited call is requested.
EnterPage(op, id, pc, reg) ==
  IF MapHas(reg, id)
  THEN [NewTask(op, id) EXCEPT !.pc = pc, !.eng = MapGet(reg, id).eng]
  ELSE NotRunning(NewTask(op, id))

OnPage(t, id, op, pc) ==
  /\ Free(t)
  /\ Commit(t, EnterPage(op, id, pc, registry))
  /\ UNCHANGED <<status, stored, registry, engines, timers, conn, faults,
                 limit, up, synced, relayVars, url>>

NavigateSession(t, id) == OnPage(t, id, "navigate", "nv_goto")
GoBack(t, id) == OnPage(t, id, "back", "pg_move")
GoForward(t, id) == OnPage(t, id, "forward", "pg_move")
Refresh(t, id) == OnPage(t, id, "reload", "pg_move")
GetScreenshot(t, id) == OnPage(t, id, "shot", "pg_input")
TypeText(t, id) == OnPage(t, id, "type", "pg_input")
PressKey(t, id) == OnPage(t, id, "key", "pg_input")
UploadFile(t, id) == OnPage(t, id, "upload", "up_wait")

\* return instance.page.url(): nothing is awaited.
GetCurrentUrl(t, id) ==
  /\ Free(t)
  /\ Commit(t, IF MapHas(registry, id)
               THEN Done([NewTask("url", id) EXCEPT !.eng = MapGet(registry, id).eng],
                         "ok")
               ELSE NotRunning(NewTask("url", id)))
  /\ UNCHANGED <<status, stored, registry, engines, timers, conn, faults,
                 limit, up, synced, relayVars, url>>

\* await instance.page.goto(url, {timeout: 60000}); a timeout is thrown to
\* the caller.  Then the update of the session's URL is requested.
NvGotoSwallowed(t) ==
  LET tk == tasks[t] IN
  /\ tk.pc = "nv_goto"
  /\ \E ok \in Outcomes(~Alive(tk.eng)) :
       /\ faults' = Charge(ok, ~Alive(tk.eng))
       /\ engines' = IF ok THEN [engines EXCEPT ![tk.eng].nav = TRUE] ELSE engines
       /\ Commit(t, IF ok THEN [tk EXCEPT !.pc = "nv_update"]
                    ELSE [TimedOut(tk) EXCEPT !.pc = "nv_update"])
  /\ UNCHANGED <<status, stored, registry, timers, conn, limit, up, synced,
                 relayVars, url>>

NvGoto(t) ==
  LET tk == tasks[t] IN
  /\ tk.pc = "nv_goto"
  /\ \E ok \in Outcomes(~Alive(tk.eng)) :
       /\ faults' = Charge(ok, ~Alive(tk.eng))
       /\ engines' = IF ok THEN [engines EXCEPT ![tk.eng].nav = TRUE] ELSE engines
       /\ Commit(t, IF ok THEN [tk EXCEPT !.pc = "nv_update"]
                    ELSE Finish(TimedOut(tk), "err", registry))
  /\ UNCHANGED <<status, stored, registry, timers, conn, limit, up, synced,
                 relayVars, url>>

\* await storage.updateBrowserSession(sessionId, {url}); then saveCookies.
NvUpdate(t) ==
  LET tk == tasks[t] IN
  /\ tk.pc = "nv_update"
  /\ \E ok \in Outcomes(FALSE) :
       /\ faults' = Charge(ok, FALSE)
       /\ url' = IF ok THEN [url EXCEPT ![tk.sid] = Target] ELSE url
       /\ Commit(t, IF ok THEN EnterSync(tk, tk.eng, "done")
                    ELSE Finish(tk, "err", registry))
  /\ UNCHANGED <<status, stored, registry, engines, timers, conn, limit, up,
                 synced, relayVars>>

\* await instance.page.goBack / goForward / reload({timeout: 30000}); a
\* timeout is thrown to the caller.  Then saveCookies.
PgMove(t) ==
  LET tk == tasks[t] IN
  /\ tk.pc = "pg_move"
  /\ \E ok \in Outcomes(~Alive(tk.eng)) :
       /\ faults' = Charge(ok, ~Alive(tk.eng))
       /\ Commit(t, IF ok THEN EnterSync(tk, tk.eng, "done")
                    ELSE Finish(TimedOut(tk), "err", registry))
  /\ UNCHANGED <<status, stored, registry, engines, timers, conn, limit, up,
                 synced, relayVars, url>>

\* await instance.page.waitForSelector('input[type="file"]', {timeout:
\* 5000}): without a file input on the page the upload throws; else the
\* input is filled.
UpWait(t) ==
  LET tk == tasks[t] IN
  /\ tk.pc = "up_wait"
  /\ \E ok \in Outcomes(~Alive(tk.eng)) :
       /\ faults' = Charge(ok, ~Alive(tk.eng))
       /\ Commit(t, IF ok THEN [tk EXCEPT !.pc = "pg_input"]
                    ELSE Finish(tk, "err", registry))
  /\ UNCHANGED <<status, stored, registry, engines, timers, conn, limit, up,
                 synced, relayVars, url>>

\* await instance.page.screenshot / keyboard.type / keyboard.press, and the
\* calls on the file input: the call returns or throws.
PgInput(t) ==
  LET tk == tasks[t] IN
  /\ tk.pc = "pg_input"
  /\ \E ok \in Answers(~Alive(tk.eng)) :
       Commit(t, Finish(tk, IF ok THEN "ok" ELSE "err", registry))
  /\ UNCHANGED <<status, stored, registry, engines, timers, conn, faults,
                 limit, up, synced, relayVars, url>>

\* ------------------------------------------------ setupPeriodicCookieSave
\* One tick of a timer: without a handle the timer clears itself; with one
\* the session record is requested.
Tick(t, tm) ==
  /\ Free(t)
  /\ tm \in timers
  /\ IF MapHas(registry, tm.sid)
     THEN /\ Commit(t, [NewTask("tick", tm.sid) EXCEPT !.pc = "tk_get",
                                                       !.eng = tm.eng])
          /\ UNCHANGED timers
     ELSE /\ timers' = timers \ {tm}
          /\ UNCHANGED <<tasks, last>>
  /\ UNCHANGED <<status, stored, registry, engines, conn, faults, limit, up,
                 synced, relayVars, url>>

\* const session = await storage.getBrowserSession(sessionId): a status
\* other than "running" clears the timer, else saveCookies(sessionId, page)
\* with the page the timer was created for.
TkGet(t) ==
  LET tk == tasks[t] IN
  /\ tk.pc = "tk_get"
  /\ \E ok \in Outcomes(FALSE) :
       /\ faults' = Charge(ok, FALSE)
       /\ timers' = IF ok /\ status[tk.sid] # "running"
                    THEN timers \ {[sid |-> tk.sid, eng |-> tk.eng]}
                    ELSE timers
       /\ Commit(t, IF ~ok THEN Finish(tk, "err", registry)
                    ELSE IF status[tk.sid] # "running" THEN Finish(tk, "ok", registry)
                    ELSE EnterSync(tk, tk.eng, "done"))
  /\ UNCHANGED <<status, stored, registry, engines, conn, limit, up, synced,
                 relayVars, url>>

\* ------------------------------------------------- restoreRunningSessions
Owner == [id \in Ids |-> IF id = "s1" THEN "admin" ELSE "u2"]

\* getBrowserSessionsByUserId: the user's sessions in creation order.
RECURSIVE SessionsOf(_, _)
SessionsOf(user, ids) ==
  IF ids = {} THEN <<>>
  ELSE LET id == CHOOSE x \in ids : \A y \in ids : x = "s1" \/ y # "s1"
       IN (IF Owner[id] = user THEN <<id>> ELSE <<>>) \o SessionsOf(user, ids \ {id})

RestoreRunningSessions(t) ==
  /\ Free(t)
  /\ Commit(t, [NewTask("restore", "none") EXCEPT !.pc = "rr_list"])
  /\ UNCHANGED <<status, stored, registry, engines, timers, conn, faults,
                 limit, up, synced, relayVars, url>>

\* const allSessions = await storage.getBrowserSessionsByUserId("admin");
\* the running ones are started one after the other.  A failing listing is
\* caught and logged.  History: log begins with "listed" once the list is in.
RrList(t) ==
  LET tk == tasks[t]
      Running(id) == status[id] = "running"
  IN
  /\ tk.pc = "rr_list"
  /\ \E ok \in Outcomes(FALSE) :
       /\ faults' = Charge(ok, FALSE)
       /\ Commit(t, IF ok
                    THEN RestoreLoop([tk EXCEPT !.log = <<"listed">>, !.todo =
                                        SelectSeq(SessionsOf("admin", Ids), Running)],
                                     registry)
                    ELSE Done(tk, "ok"))
  /\ UNCHANGED <<status, stored, registry, engines, timers, conn, limit, up,
                 synced, relayVars, url>>

\* ---------------------------------------------------------------- cleanup
\* Array.from(activeBrowsers.entries()) in some insertion order.
EntryOrders(reg) ==
  {q \in [1..Cardinality(reg) -> reg] : \A i, j \in DOMAIN q : i # j => q[i] # q[j]}

\* process.exit(0): the process and everything it holds in memory is gone,
\* its viewer connections are closed; the engine processes it did not close
\* stay.  History: log tells of each close made on the way whether it
\* succeeded ("close") or failed ("fail").
Exit(log) ==
  /\ up' = FALSE
  /\ registry' = {}
  /\ timers' = {}
  /\ conn' = [w \in Conns |-> [conn[w] EXCEPT !.st = "closed"]]
  /\ tasks' = [t \in Tasks |-> Idle]
  /\ last' = IF limit > 1 THEN last
             ELSE [NoReturn EXCEPT !.op = "cleanup", !.res = "ok", !.log = log]

\* SIGINT / SIGTERM: await browserManager.cleanup(); process.exit(0)
Cleanup(t) ==
  /\ Free(t)
  /\ IF registry = {}
     THEN Exit(<<>>)
     ELSE /\ \E q \in EntryOrders(registry) :
               Commit(t, EnterSync([NewTask("cleanup", q[1].sid) EXCEPT !.todo = Tail(q)],
                                   q[1].eng, "cl_close"))
          /\ UNCHANGED <<registry, timers, conn, up>>
  /\ UNCHANGED <<status, stored, engines, faults, limit, synced, relayVars, url>>

\* await instance.browser.close(), its failure caught; then the next entry,
\* and after the last one activeBrowsers.clear() and the exit.
ClClose(t) ==
  LET tk == tasks[t] IN
  /\ tk.pc = "cl_close"
  /\ \E ok \in Outcomes(FALSE) :
       /\ faults' = Charge(ok, FALSE)
       /\ engines' = IF ok THEN CloseEngine(engines, tk.eng) ELSE engines
       /\ IF tk.todo = <<>>
          THEN Exit(Append(tk.log, IF ok THEN "close" ELSE "fail"))
          ELSE /\ Commit(t, EnterSync([tk EXCEPT !.sid = Head(tk.todo).sid,
                                                 !.todo = Tail(tk.todo),
                                                 !.log = Append(@, IF ok THEN "close"
                                                                   ELSE "fail")],
                                      Head(tk.todo).eng, "cl_close"))
               /\ UNCHANGED <<registry, timers, conn, up>>
  /\ UNCHANGED <<status, stored, limit, synced, relayVars, url>>

\* The process is started again after its exit: the store is as the previous
\* process left it, the registry of the new process is empty, and the engine
\* processes the previous one did not close are out of its reach.
Restart ==
  /\ ~up
  /\ up' = TRUE
  /\ UNCHANGED <<status, stored, registry, engines, timers, conn, tasks, faults,
                 limit, synced, last, relayVars, url>>

\* ------------------------------------------------------------ environment
\* The page that has loaded the session's site sets or drops one of the
\* cookies cs (a response header, a script, an expiry).
SiteSets(e, cs) ==
  /\ up
  /\ Alive(e)
  /\ engines[e].nav
  /\ Url[engines[e].sid] # ""
  /\ \E c \in cs :
       engines' = [engines EXCEPT ![e].jar = IF c \in @ THEN @ \ {c} ELSE JarPut(@, c)]
  /\ UNCHANGED <<status, stored, registry, timers, conn, tasks, faults, limit,
                 up, synced, last, relayVars, url>>

\* -------------------------------------------------------- startScreencast
\* The viewer connection w after a step of its subscribe: open once the
\* subscribe has returned; when it has thrown, the handler's catch closes
\* the connection with ws.close(1011, 'Internal server error').  A socket
\* that has closed meanwhile stays closed (readyState is CLOSED in the catch).
Joined(w, id, nt) ==
  LET thrown == nt.pc = "done" /\ nt.res # "ok" /\ conn[w].st # "dropped" IN
  [conn EXCEPT ![w] = [@ EXCEPT !.st = IF @ = "dropped" THEN @
                                       ELSE IF nt.pc # "done" THEN "joining"
                                       ELSE IF nt.res = "ok" THEN "open"
                                       ELSE "closed",
                                !.sid = id,
                                !.code = IF thrown THEN InternalError ELSE @,
                                !.cause = IF thrown THEN "internal" ELSE @]]

\* The socket of viewer w closes while its subscribe is still being carried
\* out: the close event is emitted before ws.on('close', ...) is reached, so
\* the close handler installed afterwards never runs for it.
Drop(w) ==
  /\ up
  /\ conn[w].st = "joining"
  /\ conn' = [conn EXCEPT ![w].st = "dropped"]
  /\ UNCHANGED <<status, stored, registry, engines, timers, tasks, faults, limit,
                 up, synced, last, relayVars, url>>

\* No handle: throw.  Else streamClients.add(ws); without a control channel,
\* page.createCDPSession() is requested.
StartScreencast(t, id, w) ==
  LET tk == [NewTask("sub", id) EXCEPT !.ws = w]
      e == MapGet(registry, id).eng
      nt == IF ~MapHas(registry, id) THEN NotRunning(tk)
            ELSE IF engines[e].cdp = 0 THEN [tk EXCEPT !.pc = "ss_create", !.eng = e]
            ELSE Done([tk EXCEPT !.eng = e], "ok")
  IN
  /\ Free(t)
  /\ conn[w].st = "new"
  /\ engines' = IF MapHas(registry, id)
                THEN [engines EXCEPT ![e].clients = @ \cup {w}]
                ELSE engines
  /\ conn' = Joined(w, id, nt)
  /\ Commit(t, nt)
  /\ UNCHANGED <<status, stored, registry, timers, faults, limit, up, synced,
                 relayVars, url>>

\* const cdpSession = await instance.page.createCDPSession();
\* instance.cdpSession = cdpSession; the frame handler is installed and
\* Page.startScreencast is sent.  catch: instance.cdpSession = undefined.
SsCreate(t) ==
  LET tk == tasks[t]
      e == tk.eng
      c == engines[e].nchan + 1
  IN
  /\ tk.pc = "ss_create"
  /\ \E ok \in Answers(~Alive(e)) :
       LET nt == IF ok THEN [tk EXCEPT !.pc = "ss_start", !.chan = c]
                 ELSE Done(tk, "err")
       IN /\ engines' = IF ok
                        THEN [engines EXCEPT ![e].nchan = c, ![e].chans = @ \cup {c},
                                             ![e].cdp = c]
                        ELSE [engines EXCEPT ![e].cdp = 0]
          /\ conn' = Joined(tk.ws, tk.sid, nt)
          /\ Commit(t, nt)
  /\ UNCHANGED <<status, stored, registry, timers, faults, limit, up, synced,
                 relayVars, url>>

\* await cdpSession.send('Page.startScreencast', ...)
SsStart(t) ==
  LET tk == tasks[t]
      e == tk.eng
  IN
  /\ tk.pc = "ss_start"
  /\ \E ok \in Answers(tk.chan \notin engines[e].chans) :
       LET nt == Done(tk, IF ok THEN "ok" ELSE "err")
       IN /\ engines' = IF ok THEN [engines EXCEPT ![e].casting = @ \cup {tk.chan}]
                        ELSE [engines EXCEPT ![e].cdp = 0]
          /\ conn' = Joined(tk.ws, tk.sid, nt)
          /\ Commit(t, nt)
  /\ UNCHANGED <<status, stored, registry, timers, faults, limit, up, synced,
                 relayVars, url>>

\* --------------------------------------------------------- stopScreencast
\* instance.streamClients.size === 0 && instance.cdpSession
KeepCapture(cl, cdp) == FALSE
AnyViewerLeft(cl, cdp) == cdp # 0
LastViewerLeft(cl, cdp) == cl = {} /\ cdp # 0

\* The socket of viewer w closes: its readyState is no longer OPEN; the close
\* handler has yet to run.
Hangup(w) ==
  /\ up
  /\ conn[w].st = "open"
  /\ conn' = [conn EXCEPT ![w].st = "closing"]
  /\ UNCHANGED <<status, stored, registry, engines, timers, tasks, faults, limit,
                 up, synced, last, relayVars, url>>

\* The close handler of viewer connection w.  No handle: return.  Else
\* streamClients.delete(ws); when that was the last viewer of a handle with
\* a control channel, Page.stopScreencast is sent on it.
StopScreencast(t, w) ==
  LET id == conn[w].sid
      tk == [NewTask("unsub", id) EXCEPT !.ws = w]
      e == MapGet(registry, id).eng
      cl == engines[e].clients \ {w}
  IN
  /\ Free(t)
  /\ conn[w].st \in {"open", "closing"}
  /\ conn' = [conn EXCEPT ![w].st = "closed"]
  /\ IF ~MapHas(registry, id)
     THEN /\ Commit(t, Done(tk, "ok"))
          /\ UNCHANGED engines
     ELSE /\ engines' = [engines EXCEPT ![e].clients = cl]
          /\ Commit(t, IF LastViewerLeft(cl, engines[e].cdp)
                       THEN [tk EXCEPT !.pc = "us_stop", !.eng = e,
                                       !.chan = engines[e].cdp]
                       ELSE Done([tk EXCEPT !.eng = e], "ok"))
  /\ UNCHANGED <<status, stored, registry, timers, faults, limit, up, synced,
                 relayVars, url>>

\* await instance.cdpSession.send('Page.stopScreencast'); then detach() is
\* called on what instance.cdpSession holds now.  catch: log.
UsStop(t) ==
  LET tk == tasks[t]
      e == tk.eng
  IN
  /\ tk.pc = "us_stop"
  /\ \E ok \in Answers(tk.chan \notin engines[e].chans) :
       /\ engines' = IF ok THEN [engines EXCEPT ![e].casting = @ \ {tk.chan}]
                     ELSE engines
       /\ Commit(t, IF ok /\ engines[e].cdp # 0
                    THEN [tk EXCEPT !.pc = "us_detach", !.chan = engines[e].cdp,
                                    !.log = Append(tk.log, "stop")]
                    ELSE Done(tk, "ok"))
  /\ UNCHANGED <<status, stored, registry, timers, conn, faults, limit, up,
                 synced, relayVars, url>>

\* await instance.cdpSession.detach(); instance.cdpSession = undefined.  The
\* detached channel is closed and its capture ends.  catch: log.
UsDetach(t) ==
  LET tk == tasks[t]
      e == tk.eng
  IN
  /\ tk.pc = "us_detach"
  /\ \E ok \in Answers(tk.chan \notin engines[e].chans) :
       /\ engines' = IF ok
                     THEN [engines EXCEPT ![e].chans = @ \ {tk.chan},
                                          ![e].casting = @ \ {tk.chan},
                                          ![e].cdp = 0]
                     ELSE engines
       /\ Commit(t, Done(IF ok THEN [tk EXCEPT !.log = Append(tk.log, "detach")]
                         ELSE tk, "ok"))
  /\ UNCHANGED <<status, stored, registry, timers, conn, faults, limit, up,
                 synced, relayVars, url>>

\* ------------------------------------------- Page.screencastFrame handler
\* client.readyState === 1: the socket is open, also while its subscribe is
\* still being carried out.
IsOpen(w) == conn[w].st \in {"joining", "open"}

\* The handler is entered for frame fr: Page.screencastFrameAck is sent and
\* awaited before anything else.
AckNever(rl, fr) == [rl EXCEPT !.pend = Append(@, fr)]
AckFirst(rl, fr) == [rl EXCEPT !.acked = @ \cup {fr.n}, !.pend = Append(@, fr)]

\* The engine captures a frame on a channel on which capture runs and emits
\* Page.screencastFrame on it: the handler installed on that channel runs up
\* to its await.
ScreencastFrame(e, c) ==
  /\ up
  /\ Alive(e)
  /\ c \in engines[e].casting
  /\ relay.shot < MaxFrames
  /\ relay' = AckFirst([relay EXCEPT !.shot = @ + 1],
                       [n |-> relay.shot + 1, eng |-> e, chan |-> c])
  /\ UNCHANGED <<status, stored, registry, engines, timers, conn, tasks, faults,
                 limit, up, synced, last, rx, inbox, input, url>>

\* client.send may throw for a viewer, while the fault budget lasts.
SendFailures(open) ==
  IF faults < MaxFaults THEN {{}} \cup {{w} : w \in open} ELSE {{}}

\* streamClients.forEach: the open viewers that get the frame when the send
\* throws for those in fail; each send has a try / catch of its own.
ReachedUntilThrow(open, fail) == IF fail = {} THEN open ELSE {}
Reached(open, fail) == open \ fail

\* The acknowledgement of the oldest awaiting handler is answered: the frame
\* is sent to every viewer of the handle whose readyState is OPEN.  A
\* rejected acknowledgement is caught and logged.
FrForward ==
  LET fr == Head(relay.pend)
      e == fr.eng
      open == {w \in engines[e].clients : IsOpen(w)}
  IN
  /\ up
  /\ relay.pend # <<>>
  /\ \E ok \in Answers(fr.chan \notin engines[e].chans) :
       IF ok
       THEN \E fail \in SendFailures(open) :
              /\ rx' = [w \in Conns |-> IF w \in Reached(open, fail)
                                        THEN Append(rx[w], fr.n) ELSE rx[w]]
              /\ relay' = [relay EXCEPT !.pend = Tail(@), !.fwded = @ \cup {fr.n},
                                        !.lost = @ \cup {<<fr.n, w>> : w \in fail}]
              /\ faults' = faults + Cardinality(fail)
       ELSE /\ relay' = [relay EXCEPT !.pend = Tail(@)]
            /\ UNCHANGED <<rx, faults>>
  /\ UNCHANGED <<status, stored, registry, engines, timers, conn, tasks, limit,
                 up, synced, last, inbox, input, url>>

\* ------------------------------------------------------------ the viewer
\* session.viewportWidth || 1920, session.viewportHeight || 1080
Viewport == [id \in Ids |-> [width |-> 1920, height |-> 1080]]

\* The sizes at which a viewer renders the canvas, and the positions of its
\* pointer on it.
Surfaces == {[w |-> 960, h |-> 540], [w |-> 700, h |-> 500]}
Points == {[x |-> 333, y |-> 100]}

\* A coordinate on the wire is a fraction num / den.
\* x = (e.clientX - rect.left) * scaleX with scaleX = viewportWidth / rect.width
NoScale(p, sf, vp) ==
  [x |-> [num |-> p.x, den |-> 1], y |-> [num |-> p.y, den |-> 1]]
Scale(p, sf, vp) ==
  [x |-> [num |-> p.x * vp.width, den |-> sf.w],
   y |-> [num |-> p.y * vp.height, den |-> sf.h]]

\* sendMouseEvent / sendKeyEvent / sendScrollEvent: the message of an event
\* at position p of a surface of size sf.
Message(type, p, sf, id) ==
  [type |-> type, x |-> Scale(p, sf, Viewport[id]).x,
   y |-> Scale(p, sf, Viewport[id]).y, at |-> p, surf |-> sf]

Sent == input.arrived + Len(inbox["w1"]) + Len(inbox["w2"])

\* The viewer w, connected, sends the messages ms one after the other.
Send(w, ms) ==
  /\ up
  /\ conn[w].st = "open"
  /\ Sent + Len(ms) <= MaxEvents
  /\ inbox' = [inbox EXCEPT ![w] = @ \o ms]
  /\ UNCHANGED <<status, stored, registry, engines, timers, conn, tasks, faults,
                 limit, up, synced, last, relay, rx, input, url>>

\* handleCanvasClick: mousePressed, then mouseReleased, at the same place.
HandleCanvasClick(w, p, sf) ==
  Send(w, <<Message("mousePressed", p, sf, conn[w].sid),
            Message("mouseReleased", p, sf, conn[w].sid)>>)

HandleCanvasMouseMove(w, p, sf) ==
  Send(w, <<Message("mouseMoved", p, sf, conn[w].sid)>>)

HandleCanvasWheel(w) == Send(w, <<Message("scroll", NoPoint, NoSurface, conn[w].sid)>>)

\* A key that produces a character: text is set.
HandleKeyDown(w) == Send(w, <<Message("keyDown", NoPoint, NoSurface, conn[w].sid)>>)

HandleKeyUp(w) == Send(w, <<Message("keyUp", NoPoint, NoSurface, conn[w].sid)>>)

\* ------------------------------------------- ws.on('message') and dispatch
\* Math.round of a fraction: the nearest integer, a half goes up.
MathRound(q) == (2 * q.num + q.den) \div (2 * q.den)

\* The engine calls a message causes, in the order the dispatcher makes
\* them: page.mouse.move / down / up, page.keyboard.down / sendCharacter / up
\* and page.evaluate(scrollBy).
Steps(type) ==
  CASE type = "mouseMoved" -> <<"move">>
    [] type = "mousePressed" -> <<"move", "down">>
    [] type = "mouseReleased" -> <<"up">>
    [] type = "keyDown" -> <<"keydown", "char">>
    [] type = "keyUp" -> <<"keyup">>
    [] OTHER -> <<"scrollBy">>

\* data.type: mouseEvent, keyEvent or scroll.
Dispatcher(type) ==
  IF type \in {"mouseMoved", "mousePressed", "mouseReleased"} THEN "mouse"
  ELSE IF type \in {"keyDown", "keyUp"} THEN "key" ELSE "scroll"

\* page.isClosed(): false for a live page; for the page of an engine that
\* is gone the handle may or may not have learnt of it.
IsClosed(e) == IF Alive(e) THEN {FALSE} ELSE {TRUE, FALSE}

\* The call c of message ev is issued to the engine; only move takes the
\* coordinates.
Issue(in, ev, c) ==
  [in EXCEPT !.calls =
     Append(@, [k |-> ev.k, call |-> c,
                args |-> IF c = "move" THEN <<ev.x, ev.y>> ELSE <<>>,
                at |-> ev.at, surf |-> ev.surf])]

\* The message handler of viewer w takes its next message and calls the
\* dispatcher.  No handle: throw, which the handler catches and logs.  A
\* closed page: return.  Else the first engine call is made.
OnMessage(t, w) ==
  LET m == Head(inbox[w])
      id == conn[w].sid
      ev == [k |-> input.arrived + 1, type |-> m.type, x |-> MathRound(m.x),
             y |-> MathRound(m.y), at |-> m.at, surf |-> m.surf]
      tk == [NewTask(Dispatcher(m.type), id) EXCEPT !.ws = w, !.ev = ev]
      in == [input EXCEPT !.arrived = ev.k]
      e == MapGet(registry, id).eng
  IN
  /\ Free(t)
  /\ conn[w].st = "open"
  /\ inbox[w] # <<>>
  /\ inbox' = [inbox EXCEPT ![w] = Tail(@)]
  /\ IF ~MapHas(registry, id)
     THEN /\ input' = in
          /\ Commit(t, NotRunning(tk))
     ELSE \E closed \in IsClosed(e) :
            IF closed
            THEN /\ input' = in
                 /\ Commit(t, Done([tk EXCEPT !.eng = e], "ok"))
            ELSE /\ input' = Issue(in, ev, Head(Steps(m.type)))
                 /\ Commit(t, [tk EXCEPT !.pc = "ev_call", !.eng = e,
                                         !.todo = Tail(Steps(m.type))])
  /\ UNCHANGED <<status, stored, registry, engines, timers, conn, faults, limit,
                 up, synced, relay, rx, url>>

\* The awaited engine call of a dispatcher returns: the next call of the
\* message is made; after the last one a mouse event runs saveCookies.  A
\* rejected call is swallowed when its message says 'Session closed', and
\* thrown otherwise.
EvCall(t) ==
  LET tk == tasks[t]
      e == tk.eng
      nt == [tk EXCEPT !.log = Append(@, Steps(tk.ev.type)[Len(tk.log) + 1])]
  IN
  /\ tk.pc = "ev_call"
  /\ \E ok \in Answers(~Alive(e)) :
       IF ~ok
       THEN /\ \E res \in {"ok", "err"} : Commit(t, Done(tk, res))
            /\ UNCHANGED input
       ELSE IF tk.todo # <<>>
       THEN /\ input' = Issue(input, tk.ev, Head(tk.todo))
            /\ Commit(t, [nt EXCEPT !.todo = Tail(@)])
       ELSE /\ Commit(t, IF tk.op = "mouse" THEN AfterClick(nt, e)
                         ELSE Done(nt, "ok"))
            /\ UNCHANGED input
  /\ UNCHANGED <<status, stored, registry, engines, timers, conn, faults, limit,
                 up, synced, relay, rx, inbox, url>>

\* ------------------------------------------------- wss.on('connection')
\* The identities a request can carry, "anon" for a request without a
\* logged-in user; the session ids a request can name, "none" for a request
\* without one.
Visitors == {"admin", "u2", "anon"}
Requests == Ids \cup {"none"}

\* browserSession.userId !== userId
AnyUser(user, id) == TRUE
Owns(user, id) == Owner[id] = user

\* ws.close(code, reason); return
Closed(w, code, cause) ==
  [conn EXCEPT ![w].st = "closed", ![w].code = code, ![w].cause = cause]

\* The handler of connection w has thrown or has closed the connection.
Rejected(tk) == Done(tk, "err")

\* browserManager.startScreencast(browserSessionId, ws) is entered by the
\* handler tk: what startScreencast does up to its first await.
CastWithoutJoin(tk, reg, es) ==
  [task |-> IF MapHas(reg, tk.sid) THEN Done(tk, "ok") ELSE NotRunning(tk),
   engines |-> es]
EnterCast(tk, reg, es) ==
  LET e == MapGet(reg, tk.sid).eng IN
  IF ~MapHas(reg, tk.sid) THEN [task |-> NotRunning(tk), engines |-> es]
  ELSE [task |-> IF es[e].cdp = 0 THEN [tk EXCEPT !.pc = "ss_create", !.eng = e]
                 ELSE Done([tk EXCEPT !.eng = e], "ok"),
        engines |-> [es EXCEPT ![e].clients = @ \cup {tk.ws}]]

\* A viewer connects with the session id q and the identity who.  Without a
\* session id the connection is closed at once; else the session and
\* passport middleware is run.
WsConnect(t, w, q, who) ==
  LET tk == [NewTask("connect", q) EXCEPT !.ws = w] IN
  /\ Free(t)
  /\ conn[w].st = "new"
  /\ IF q = "none"
     THEN /\ conn' = Closed(w, PolicyViolation, "noid")
          /\ Commit(t, Rejected(tk))
     ELSE /\ conn' = [conn EXCEPT ![w].st = "checking", ![w].sid = q, ![w].user = who]
          /\ Commit(t, [tk EXCEPT !.pc = "ws_auth"])
  /\ UNCHANGED <<status, stored, registry, engines, timers, faults, limit, up,
                 synced, relayVars, url>>

\* await runMiddleware(...): a request that is not authenticated is closed;
\* else the session record is requested.  A middleware that fails lands in
\* the handler's catch.
WsAuth(t) ==
  LET tk == tasks[t]
      w == tk.ws
  IN
  /\ tk.pc = "ws_auth"
  /\ \E ok \in Outcomes(FALSE) :
       /\ faults' = Charge(ok, FALSE)
       /\ IF ~ok
          THEN /\ conn' = Closed(w, InternalError, "internal")
               /\ Commit(t, Rejected(tk))
          ELSE IF conn[w].user = "anon"
          THEN /\ conn' = Closed(w, PolicyViolation, "auth")
               /\ Commit(t, Rejected(tk))
          ELSE /\ Commit(t, [tk EXCEPT !.pc = "ws_get"])
               /\ UNCHANGED conn
  /\ UNCHANGED <<status, stored, registry, engines, timers, limit, up, synced,
                 relayVars, url>>

\* const browserSession = await storage.getBrowserSession(browserSessionId):
\* a user who does not own the session is closed.  Else a session that is
\* not active is started, and on an active one startScreencast is called.
WsGet(t) ==
  LET tk == tasks[t]
      w == tk.ws
      r == EnterCast(tk, registry, engines)
  IN
  /\ tk.pc = "ws_get"
  /\ \E ok \in Outcomes(FALSE) :
       /\ faults' = Charge(ok, FALSE)
       /\ IF ~ok
          THEN /\ conn' = Closed(w, InternalError, "internal")
               /\ Commit(t, Rejected(tk))
               /\ UNCHANGED engines
          ELSE IF ~Owns(conn[w].user, tk.sid)
          THEN /\ conn' = Closed(w, PolicyViolation, "auth")
               /\ Commit(t, Rejected(tk))
               /\ UNCHANGED engines
          ELSE IF ~MapHas(registry, tk.sid)
          THEN /\ Commit(t, EnterStart(tk, tk.sid, registry))
               /\ UNCHANGED <<conn, engines>>
          ELSE /\ engines' = r.engines
               /\ conn' = Joined(w, tk.sid, r.task)
               /\ Commit(t, r.task)
  /\ UNCHANGED <<status, stored, registry, timers, limit, up, synced,
                 relayVars, url>>

\* await browserManager.startSession(browserSessionId) has returned or
\* thrown: catch: ws.close(1011, 'Failed to start browser session'); else
\* startScreencast is called.
WsStarted(t) ==
  LET tk == tasks[t]
      w == tk.ws
      r == EnterCast([tk EXCEPT !.res = "none"], registry, engines)
  IN
  /\ tk.pc = "ws_started"
  /\ IF tk.res = "err"
     THEN /\ conn' = Closed(w, InternalError, "internal")
          /\ Commit(t, Rejected(tk))
          /\ UNCHANGED engines
     ELSE /\ engines' = r.engines
          /\ conn' = Joined(w, tk.sid, r.task)
          /\ Commit(t, r.task)
  /\ UNCHANGED <<status, stored, registry, timers, faults, limit, up, synced,
                 relayVars, url>>

\* The viewer w sends a message while the handler has not installed the
\* message listener on its connection: the message reaches no listener.
SendUnheard(w) ==
  /\ up
  /\ conn[w].st \in {"checking", "joining"}
  /\ Sent + input.unheard["w1"] + input.unheard["w2"] < MaxEvents
  /\ input' = [input EXCEPT !.unheard[w] = @ + 1]
  /\ UNCHANGED <<status, stored, registry, engines, timers, conn, tasks, faults,
                 limit, up, synced, last, relay, rx, inbox, url>>

\* ---------------------------------------------------------- specification
\* The calls of the operation surface on session id.
Call(t, id) ==
  \/ StartSession(t, id)
  \/ PauseSession(t, id)
  \/ StopSession(t, id)
  \/ ResumeSession(t, id)
  \/ ClickAt(t, id)

\* The resumption of a suspended call, and the timer.
Resume(t) ==
  \/ \E tm \in timers : Tick(t, tm)
  \/ StGet(t) \/ StLaunch(t) \/ StLoad(t) \/ StGoto(t) \/ StRunning(t) \/ StError(t)
  \/ ScHarvest(t) \/ ScClear(t)
  \/ PaUpdate(t) \/ SpNoHandle(t) \/ SpClose(t) \/ SpUpdate(t) \/ RsUpdate(t)
  \/ CkClick(t) \/ TkGet(t)

\* Process start-up and shutdown.
Process(t) ==
  \/ RestoreRunningSessions(t) \/ RrList(t)
  \/ Cleanup(t) \/ ClClose(t)

\* The steps that only run when a cookie exists.
WithCookies(t) == StImport(t) \/ ScInsert(t)

\* The viewers of session s1.
Viewers(t) ==
  \/ \E w \in Conns : StartScreencast(t, "s1", w) \/ StopScreencast(t, w)
  \/ SsCreate(t) \/ SsStart(t) \/ UsStop(t) \/ UsDetach(t)

\* The lifecycle of session s1 under concurrent calls; its page sets no cookie.
Next == \E t \in Tasks : Call(t, "s1") \/ Resume(t) \/ Process(t)

\* The lifecycle of every session; the pages set no cookie.
NextSeq ==
  \E t \in Tasks :
    \/ \E id \in Ids : Call(t, id)
    \/ Resume(t) \/ Process(t)

\* Session s1, whose page sets and drops cookies.
NextJar ==
  \/ \E t \in Tasks : Call(t, "s1") \/ Resume(t) \/ WithCookies(t)
  \/ \E e \in Engines : SiteSets(e, Universe)

\* Session s1 under concurrent synchronisations of one cookie.
NextCookies ==
  \/ \E t \in Tasks :
       \/ StartSession(t, "s1") \/ ClickAt(t, "s1") \/ PauseSession(t, "s1")
       \/ \E tm \in timers : Tick(t, tm)
       \/ StGet(t) \/ StLaunch(t) \/ StLoad(t) \/ StGoto(t) \/ StRunning(t) \/ StError(t)
       \/ ScHarvest(t) \/ ScClear(t) \/ CkClick(t) \/ PaUpdate(t) \/ TkGet(t)
       \/ WithCookies(t)
  \/ \E e \in Engines : SiteSets(e, {CookieB})

\* Session s1 and its viewers.
NextCast ==
  \E t \in Tasks :
    \/ StartSession(t, "s1") \/ StopSession(t, "s1")
    \/ StGet(t) \/ StLaunch(t) \/ StLoad(t) \/ StGoto(t) \/ StRunning(t) \/ StError(t)
    \/ ScHarvest(t) \/ ScClear(t)
    \/ SpNoHandle(t) \/ SpClose(t) \/ SpUpdate(t)
    \/ Viewers(t)

Spec == Init /\ [][Next]_vars

\* The callers issue one call at a time.
SpecSeq == InitSeq /\ [][NextSeq]_vars

SpecJar == InitSeq /\ [][NextJar]_vars

SpecCookies == Init /\ [][NextCookies]_vars

SpecCast == InitSeq /\ [][NextCast]_vars

\* Session s1 and its viewers, with subscribes and unsubscribes that overlap.
SpecCastRace == Init /\ [][NextCast]_vars

\* Session s1, its viewers and the frames relayed to them.
NextRelay ==
  \/ \E t \in Tasks :
       \/ StartSession(t, "s1")
       \/ StGet(t) \/ StLaunch(t) \/ StLoad(t) \/ StGoto(t) \/ StRunning(t) \/ StError(t)
       \/ ScHarvest(t) \/ ScClear(t)
       \/ Viewers(t)
  \/ \E w \in Conns : Hangup(w)
  \/ \E e \in Engines : \E c \in engines[e].casting : ScreencastFrame(e, c)
  \/ FrForward

SpecRelay == InitSeq /\ [][NextRelay]_vars

\* The start of session s1 and the subscribes of its viewers.
Watched(t) ==
  \/ StartSession(t, "s1")
  \/ StGet(t) \/ StLaunch(t) \/ StLoad(t) \/ StGoto(t) \/ StRunning(t) \/ StError(t)
  \/ ScHarvest(t) \/ ScClear(t)
  \/ \E w \in Conns : StartScreencast(t, "s1", w)
  \/ SsCreate(t) \/ SsStart(t)

\* The events a viewer sends from position p of a surface of size sf.
Events(w, p, sf) ==
  \/ HandleCanvasClick(w, p, sf) \/ HandleCanvasMouseMove(w, p, sf)
  \/ HandleCanvasWheel(w) \/ HandleKeyDown(w) \/ HandleKeyUp(w)

\* Session s1, started and stopped, clicked through the operation surface
\* and through its viewers, one call or message at a time.
NextPointer ==
  \/ \E t \in Tasks :
       \/ Watched(t)
       \/ StopSession(t, "s1") \/ SpNoHandle(t) \/ SpClose(t) \/ SpUpdate(t)
       \/ ClickAt(t, "s1") \/ CkClick(t)
       \/ \E w \in Conns : OnMessage(t, w)
       \/ EvCall(t)
  \/ \E w \in Conns : \E p \in Points : \E sf \in Surfaces : Events(w, p, sf)

SpecPointer == InitSeq /\ [][NextPointer]_vars

\* Session s1 and the messages of its viewers, handled as they arrive.
NextEvents ==
  \/ \E t \in Tasks :
       \/ Watched(t)
       \/ \E w \in Conns : OnMessage(t, w)
       \/ EvCall(t)
  \/ \E w \in Conns : Events(w, [x |-> 333, y |-> 100], [w |-> 700, h |-> 500])

SpecEvents == Init /\ [][NextEvents]_vars

\* The operations on the page of session id.
Page(t, id) ==
  \/ NavigateSession(t, id) \/ GoBack(t, id) \/ GoForward(t, id) \/ Refresh(t, id)
  \/ GetScreenshot(t, id) \/ TypeText(t, id) \/ PressKey(t, id)
  \/ UploadFile(t, id) \/ GetCurrentUrl(t, id)

PageSteps(t) == NvGoto(t) \/ NvUpdate(t) \/ PgMove(t) \/ UpWait(t) \/ PgInput(t)

\* Session s1 is started, paused, stopped, operated on and subscribed to,
\* one call at a time.
NextPage ==
  \E t \in Tasks :
    \/ StartSession(t, "s1") \/ StopSession(t, "s1") \/ PauseSession(t, "s1")
    \/ StGet(t) \/ StLaunch(t) \/ StLoad(t) \/ StGoto(t) \/ StRunning(t) \/ StError(t)
    \/ ScHarvest(t) \/ ScClear(t)
    \/ SpNoHandle(t) \/ SpClose(t) \/ SpUpdate(t) \/ PaUpdate(t)
    \/ Page(t, "s1") \/ PageSteps(t)
    \/ ClickAt(t, "s1") \/ CkClick(t)
    \/ \E w \in Conns : StartScreencast(t, "s1", w)
    \/ SsCreate(t) \/ SsStart(t)

SpecPage == InitSeq /\ [][NextPage]_vars

\* Session s1, whose page sets and drops a cookie, with every operation that
\* synchronises the cookies, and the shutdown.
NextSync ==
  \/ \E t \in Tasks :
       \/ StartSession(t, "s1") \/ NavigateSession(t, "s1") \/ ClickAt(t, "s1")
       \/ PauseSession(t, "s1") \/ StopSession(t, "s1")
       \/ \E tm \in timers : Tick(t, tm)
       \/ StGet(t) \/ StLaunch(t) \/ StLoad(t) \/ StGoto(t) \/ StRunning(t) \/ StError(t)
       \/ NvGoto(t) \/ NvUpdate(t) \/ CkClick(t) \/ TkGet(t)
       \/ PaUpdate(t) \/ SpNoHandle(t) \/ SpClose(t) \/ SpUpdate(t)
       \/ ScHarvest(t) \/ ScClear(t) \/ WithCookies(t)
       \/ Cleanup(t) \/ ClClose(t)
  \/ \E e \in Engines : SiteSets(e, {CookieB})

SpecSync == InitSeq /\ [][NextSync]_vars

\* The viewers connect to the sessions with or without an identity, and
\* send key events; the sessions are stopped.
NextGate ==
  \/ \E t \in Tasks :
       \/ \E w \in Conns, q \in Requests, who \in Visitors : WsConnect(t, w, q, who)
       \/ WsAuth(t) \/ WsGet(t) \/ WsStarted(t)
       \/ StGet(t) \/ StLaunch(t) \/ StLoad(t) \/ StGoto(t) \/ StRunning(t) \/ StError(t)
       \/ ScHarvest(t) \/ ScClear(t)
       \/ SsCreate(t) \/ SsStart(t)
       \/ \E w \in Conns : OnMessage(t, w)
       \/ EvCall(t)
  \/ \E w \in Conns : HandleKeyDown(w) \/ SendUnheard(w)

SpecGate == InitSeq /\ [][NextGate]_vars

\* Two sessions side by side.  Session s1 is started, its page sets a
\* cookie, and viewer w1 watches it; session s2 goes through every operation:
\* it is started, paused, resumed, navigated, stopped, watched and left by
\* viewer w2, sent a key event, and its timer ticks.
NextIso ==
  \/ \E t \in Tasks :
       \/ StartSession(t, "s1") \/ StartScreencast(t, "s1", "w1")
       \/ StartSession(t, "s2") \/ PauseSession(t, "s2") \/ ResumeSession(t, "s2")
       \/ StopSession(t, "s2") \/ NavigateSession(t, "s2")
       \/ StartScreencast(t, "s2", "w2") \/ StopScreencast(t, "w2")
       \/ OnMessage(t, "w2") \/ EvCall(t)
       \/ \E tm \in timers : Tick(t, tm)
       \/ StGet(t) \/ StLaunch(t) \/ StLoad(t) \/ StGoto(t) \/ StRunning(t) \/ StError(t)
       \/ ScHarvest(t) \/ ScClear(t) \/ ScInsert(t)
       \/ PaUpdate(t) \/ RsUpdate(t) \/ SpNoHandle(t) \/ SpClose(t) \/ SpUpdate(t)
       \/ NvGoto(t) \/ NvUpdate(t) \/ TkGet(t)
       \/ SsCreate(t) \/ SsStart(t) \/ UsStop(t) \/ UsDetach(t)
  \/ Sent = 0 /\ HandleKeyDown("w2")
  \/ \E e \in Engines : engines[e].jar = {} /\ SiteSets(e, {CookieB})

\* Both sessions were left stopped.
InitIso == Boot(1, {})

SpecIso == InitIso /\ [][NextIso]_vars

\* The lifecycle calls of session s1, which was left stopped, overlapping.
NextRace == \E t \in Tasks : Call(t, "s1") \/ Resume(t)

InitRace == Boot(MaxTasks, {})

SpecRace == InitRace /\ [][NextRace]_vars

\* Session s1 and its viewers, whose sockets may close at any time, also
\* while their subscribe is being carried out.
NextDrop ==
  \/ \E t \in Tasks :
       \/ StartSession(t, "s1")
       \/ StGet(t) \/ StLaunch(t) \/ StLoad(t) \/ StGoto(t) \/ StRunning(t) \/ StError(t)
       \/ ScHarvest(t) \/ ScClear(t)
       \/ Viewers(t)
  \/ \E w \in Conns : Hangup(w) \/ Drop(w)

SpecDrop == InitSeq /\ [][NextDrop]_vars

\* Two sessions and the frames their engines capture.  Both are started;
\* session s1 is stopped as well; viewer w1 watches either of them and
\* leaves, viewer w2 watches session s2.
NextFrames ==
  \/ \E t \in Tasks :
       \/ \E id \in Ids : StartSession(t, id) \/ StartScreencast(t, id, "w1")
       \/ StopSession(t, "s1") \/ StartScreencast(t, "s2", "w2")
       \/ StopScreencast(t, "w1")
       \/ StGet(t) \/ StLaunch(t) \/ StLoad(t) \/ StGoto(t) \/ StRunning(t) \/ StError(t)
       \/ ScHarvest(t) \/ ScClear(t)
       \/ SpNoHandle(t) \/ SpClose(t) \/ SpUpdate(t)
       \/ SsCreate(t) \/ SsStart(t) \/ UsStop(t) \/ UsDetach(t)
  \/ Hangup("w1")
  \/ \E e \in Engines : \E c \in engines[e].casting : ScreencastFrame(e, c)
  \/ FrForward

SpecFrames == InitIso /\ [][NextFrames]_vars

\* The sessions are started, the process is shut down, started again, and
\* restores the sessions.
NextRestart ==
  \/ \E t \in Tasks :
       \/ \E id \in Ids : StartSession(t, id)
       \/ StGet(t) \/ StLaunch(t) \/ StLoad(t) \/ StGoto(t) \/ StRunning(t) \/ StError(t)
       \/ ScHarvest(t) \/ ScClear(t)
       \/ Process(t)
  \/ Restart

SpecRestart == InitIso /\ [][NextRestart]_vars

\* The process starts up, restores the sessions left running, and is shut
\* down.
NextBoot ==
  \E t \in Tasks :
    \/ Process(t)
    \/ StGet(t) \/ StLaunch(t) \/ StLoad(t) \/ StGoto(t) \/ StRunning(t) \/ StError(t)
    \/ ScHarvest(t) \/ ScClear(t)

SpecBoot == InitBoot /\ [][NextBoot]_vars

\* ------------------------------------------------------------- properties
SyncPcs == {"sc_harvest", "sc_clear", "sc_insert"}

\* Slot t runs startSession (called directly, by resume or by restore) and
\* has passed the registry check.
StartInFlight(t) ==
  \/ tasks[t].pc \in {"st_get", "st_launch", "st_load", "st_import", "st_goto",
                      "st_running", "st_error"}
  \/ tasks[t].pc \in SyncPcs /\ tasks[t].ret = "st_register"

SyncInFlight(id) == \E t \in Tasks : tasks[t].sid = id /\ tasks[t].pc \in SyncPcs

Quiet == \A t \in Tasks : ~InFlight(t)

\* C1: under any interleaving of start, pause, resume, stop, restore and
\* shutdown calls, concurrent starts of one id included, the registry holds
\* at most one handle per session id.
C1_OneHandlePerSession ==
  \A id \in Ids : Cardinality({h \in registry : h.sid = id}) <= 1

\* Two starts of s1 overlapped: the engine of the start that registered and
\* returned first (its timer runs) is alive, and the registry entry of s1
\* now names the engine of the other start.
C1_Witness ==
  \E e \in Engines :
    /\ Alive(e)
    /\ engines[e].sid = "s1"
    /\ [sid |-> "s1", eng |-> e] \in timers
    /\ MapHas(registry, "s1")
    /\ MapGet(registry, "s1").eng # e

\* C2: a start issued while another start of the same id is in flight is a
\* no-op: two overlapping starts of one id never both hold an engine that
\* they launched.
C2_SecondStartIsNoOp ==
  \A t, u \in Tasks :
    (t # u /\ StartInFlight(t) /\ StartInFlight(u) /\ tasks[t].sid = tasks[u].sid)
      => (tasks[t].eng = 0 \/ tasks[u].eng = 0)

\* C3: when start has thrown from its try block (any failure after the
\* session record was loaded), status "error" is persisted and no handle is
\* registered for the id.
C3_FailedStartLeavesNoHandle ==
  (last.op = "start" /\ last.res = "err" /\ last.from = "st_error")
    => (status[last.sid] = "error" /\ ~MapHas(registry, last.sid))

\* What a step of slot t may change when it is a step of a stop that found
\* no handle.
C4_Step(t) ==
  LET tk == tasks[t]
      nt == tasks'[t]
  IN
  /\ (tk.pc = "idle" /\ nt.op = "stop" /\ nt.eng = 0)
       => UNCHANGED <<status, stored, registry, engines, timers, conn, synced>>
  /\ (tk.op = "stop" /\ tk.eng = 0 /\ nt # tk)
       => /\ UNCHANGED <<stored, registry, engines, timers, conn, synced>>
          /\ status' \in {status, [status EXCEPT ![tk.sid] = "stopped"]}
          /\ nt.pc = "idle"

\* C4: stop on a session without a handle persists status "stopped" and does
\* nothing else: every step of such a stop leaves the cookie rows, the
\* registry, the engines, the timers and the viewers as they are and changes
\* no status but that of its session, to "stopped"; it synchronises nothing;
\* and when it has returned the status is "stopped".
C4_StopWithoutHandle ==
  /\ [][\A t \in Tasks : C4_Step(t)]_vars
  /\ []((last.op = "stop" /\ last.res = "ok" /\ last.eng = 0)
          => (status[last.sid] = "stopped" /\ last.log = <<>>
              /\ ~MapHas(registry, last.sid)))

\* A stop of s1 has returned before any engine was launched.
C4_Witness ==
  /\ last.op = "stop" /\ last.res = "ok" /\ last.eng = 0
  /\ last.sid = "s1"
  /\ status["s1"] = "stopped"
  /\ engines = <<>>

\* The order of the effects of a stop that found a handle, step by step.
C5_Step(t) ==
  LET tk == tasks[t] IN
  (tk.op = "stop" /\ tk.eng # 0 /\ tasks'[t] # tk)
    => /\ (engines'[tk.eng].alive # engines[tk.eng].alive) => tk.log = <<"sync">>
       /\ (registry' # registry) => ~engines'[tk.eng].alive
       /\ (status' # status) => (~MapHas(registry, tk.sid) /\ ~Alive(tk.eng))

\* C5: after stop has returned on a session that had a handle, the status
\* is "stopped", the registry has no entry for the id and the engine of the
\* handle is closed; the effects came in the order cookie synchronisation,
\* engine close, registry release, status update.
C5_StopReleases ==
  /\ [][\A t \in Tasks : C5_Step(t)]_vars
  /\ []((last.op = "stop" /\ last.res = "ok" /\ last.eng # 0)
          => /\ status[last.sid] = "stopped"
             /\ ~MapHas(registry, last.sid)
             /\ ~Alive(last.eng)
             /\ last.log = <<"sync", "close", "release", "persist">>)

\* A stop of a session that had a handle has returned.
C5_Witness ==
  /\ last.op = "stop" /\ last.res = "ok" /\ last.eng # 0
  /\ status[last.sid] = "stopped"

\* A step of a pause, or of a resume that found a handle, and the state
\* after the return of one.
C6_Step(t) ==
  LET tk == tasks[t] IN
  ((tk.op = "pause" \/ tk.pc = "rs_update") /\ tasks'[t] # tk)
    => (registry' = registry /\ Len(engines') = Len(engines)
        /\ engines'[tk.eng].alive = engines[tk.eng].alive)

C6_Kept(op, st) ==
  (last.op = op /\ last.res = "ok" /\ last.from \in {"pa_update", "rs_update"})
    => /\ status[last.sid] = st
       /\ [sid |-> last.sid, eng |-> last.eng] \in registry
       /\ Alive(last.eng)

\* C6: pause on a session with a handle keeps the handle registered and the
\* engine alive and persists "paused"; a resume that finds the handle
\* persists "running"; no step of either launches, closes or replaces an
\* engine.
C6_PauseKeepsHandle ==
  /\ [][\A t \in Tasks : C6_Step(t)]_vars
  /\ [](last.op = "pause" /\ last.res = "ok" => last.from = "pa_update")
  /\ [](C6_Kept("pause", "paused"))
  /\ [](C6_Kept("resume", "running"))
  /\ [](last.op = "resume" /\ last.res = "ok" => status[last.sid] = "running")

\* A resume follows a pause: the status is "paused", the handle is still
\* registered with its engine alive, and the resume is about to persist
\* "running".
C6_Witness ==
  \E t \in Tasks :
    /\ tasks[t].op = "resume" /\ tasks[t].pc = "rs_update"
    /\ status[tasks[t].sid] = "paused"
    /\ [sid |-> tasks[t].sid, eng |-> tasks[t].eng] \in registry
    /\ Alive(tasks[t].eng)

\* The rows hold the same cookies as the harvested sequence: none missing,
\* none twice, none more.
SameSet(rows, read) ==
  /\ Len(rows) = Len(read)
  /\ Range(rows) = {ToStored(c) : c \in Range(read)}

\* C7: whenever no synchronisation of a session is in progress, its stored
\* cookie rows are exactly the jar as read by the synchronisation that
\* completed last, also when synchronisations overlap or fail part-way.
C7_StoredIsLastJarRead ==
  \A id \in Ids : ~SyncInFlight(id) => SameSet(stored[id], synced[id].read)

\* C8: synchronisation is idempotent: whenever the synchronisations made so
\* far have run to their end, the stored rows are the image of the jar that
\* the last one read and of nothing else, so that a repeated synchronisation
\* of an unchanged jar leaves the rows of the first.
C8_SyncIdempotent ==
  \A id \in Ids :
    (~SyncInFlight(id) /\ synced[id].ok /\ synced[id].by # "none")
      => stored[id] = [i \in 1..Len(synced[id].read) |->
                         ToStored(synced[id].read[i])]

\* A second synchronisation of s1 has read the two cookies that the one
\* before it had read, and has completed.
C8_Witness ==
  /\ ~SyncInFlight("s1")
  /\ synced["s1"].again /\ synced["s1"].ok
  /\ Len(synced["s1"].read) = 2
  /\ Len(stored["s1"]) = 2

\* Row r and setCookie parameter p denote the same cookie.
SameCookie(r, p) ==
  /\ p.name = r.name /\ p.value = r.value
  /\ p.domain = r.domain /\ p.path = r.path
  /\ p.expires = (IF r.expires = None THEN None ELSE Some(r.expires[1] * UsPerMs))
  /\ (p.httpOnly # None) = r.httpOnly
  /\ (p.secure # None) = r.secure
  /\ p.sameSite = r.sameSite

\* Row r and cookie c of a jar denote the same cookie.
InJar(r, c) ==
  /\ c.name = r.name /\ c.value = r.value
  /\ r.domain = Some(c.domain) /\ r.path = Some(c.path)
  /\ r.expires = Some(c.expires \div UsPerMs) /\ c.expires % UsPerMs = 0
  /\ c.httpOnly = r.httpOnly /\ c.secure = r.secure
  /\ c.sameSite = r.sameSite

\* C9: the cookie rows that the synchronisation of stop persisted are
\* exactly the cookies the next start hands to the fresh page, and the jar of
\* that page holds them, and nothing else, when the navigation is requested.
C9_RoundTrip ==
  \A t \in Tasks :
    LET tk == tasks[t]
        rows == stored[tk.sid]
    IN /\ tk.pc = "st_import"
            => /\ Len(tk.imp) = Len(rows)
               /\ \A i \in 1..Len(rows) : SameCookie(rows[i], tk.imp[i])
       /\ tk.pc = "st_goto"
            => /\ \A r \in Range(rows) : \E c \in engines[tk.eng].jar : InJar(r, c)
               /\ \A c \in engines[tk.eng].jar : \E r \in Range(rows) : InJar(r, c)
               /\ Cardinality(engines[tk.eng].jar) = Len(rows)

\* The synchronisation of a stop persisted two cookies; the start after it
\* has imported them into its new page and requests the navigation.
C9_Witness ==
  \E t \in Tasks :
    /\ tasks[t].pc = "st_goto"
    /\ synced[tasks[t].sid].by = "stop" /\ synced[tasks[t].sid].ok
    /\ Len(stored[tasks[t].sid]) = 2
    /\ Cardinality(engines[tasks[t].eng].jar) = 2

\* C10: when the last viewer has unsubscribed, capture is stopped and the
\* control channel is torn down: with no call in flight, a handle without
\* viewers has no capture running, no open channel and no channel
\* reference; and a subscribe that has returned, also one made after that,
\* has capture running on the handle's channel.
C10_NoCaptureWithoutViewers ==
  /\ Quiet =>
       \A h \in registry :
         engines[h.eng].clients = {}
           => (engines[h.eng].casting = {} /\ engines[h.eng].chans = {}
               /\ engines[h.eng].cdp = 0)
  /\ (last.op = "sub" /\ last.res = "ok")
       => (engines[last.eng].cdp # 0
           /\ engines[last.eng].cdp \in engines[last.eng].casting)

\* The first viewer has subscribed and left, its channel is torn down; the
\* second viewer has subscribed and capture runs on a second channel.
C10_Witness ==
  /\ last.op = "sub" /\ last.res = "ok"
  /\ engines[last.eng].nchan = 2
  /\ engines[last.eng].chans = {2}
  /\ engines[last.eng].casting = {2}
  /\ engines[last.eng].clients = {last.ws}

\* C11: a session has at most one open control channel and at most one
\* active frame capture at any time, also when a subscribe arrives while
\* another subscribe of the same session is still creating the channel.
C11_OneChannelPerSession ==
  \A e \in Engines :
    /\ Cardinality(engines[e].chans) <= 1
    /\ Cardinality(engines[e].casting) <= 1

\* The viewers subscribed to the handle of engine e whose socket is open.
Watching(e) == {w \in engines[e].clients : IsOpen(w)}

\* The step forwards the frame of the oldest awaiting handler.
Forwards == relay.pend # <<>> /\ relay'.fwded # relay.fwded

\* C12: every frame forwarded while two viewers are subscribed to a running
\* session reaches both, so both receive the same frames, in capture order;
\* when one of them disconnects, capture goes on and the other receives
\* every later frame.
C12_SameFramesForAll ==
  /\ [][(Forwards /\ faults' = faults) =>
          \A w \in Watching(Head(relay.pend).eng) :
            rx'[w] = Append(rx[w], Head(relay.pend).n)]_vars
  /\ [](\A w \in Conns : \A i, j \in 1..Len(rx[w]) : i < j => rx[w][i] < rx[w][j])
  /\ [][\A e \in Engines :
          (engines'[e].clients # {} /\ engines'[e].clients # engines[e].clients
           /\ engines'[e].clients \subseteq engines[e].clients)
          => /\ engines'[e].casting = engines[e].casting
             /\ engines'[e].cdp = engines[e].cdp
             /\ \A t \in Tasks : tasks'[t].pc # "us_stop"]_vars

C12_Witness ==
  /\ conn["w1"].st = "closed"
  /\ conn["w2"].st = "open"
  /\ rx["w1"] = <<1>>
  /\ rx["w2"] = <<1, 2>>

\* C13: a frame is forwarded to every open viewer whose own send did not
\* throw, whatever happened to the send to another viewer and whether or not
\* another subscriber is open; the forwarding leaves the channel and its
\* capture as they are, so later frames are handled as well.
C13_FailureIsolated ==
  [][Forwards =>
       LET fr == Head(relay.pend) IN
       /\ \A w \in Watching(fr.eng) :
            <<fr.n, w>> \notin relay'.lost => rx'[w] = Append(rx[w], fr.n)
       /\ engines' = engines]_vars

C13_Witness ==
  /\ <<1, "w1">> \in relay.lost
  /\ rx["w1"] = <<2>>
  /\ rx["w2"] = <<1, 2>>

\* C14: the acknowledgement of every captured frame is issued when the
\* handler is entered, and a frame is forwarded only in a later step than
\* the one that issued its acknowledgement, with or without an open viewer
\* and with or without a send that throws.
C14_AckBeforeForward ==
  /\ [](1..relay.shot \subseteq relay.acked)
  /\ [][relay'.fwded \subseteq relay.acked]_vars

\* Frame 2 was forwarded when the only viewer was no longer open.
C14_Witness ==
  /\ relay.fwded = {1, 2}
  /\ relay.acked = {1, 2}
  /\ relay.lost = {}
  /\ conn["w1"].st = "closing" /\ rx["w1"] = <<1>>
  /\ conn["w2"].st = "new"

\* C15: the engine calls of a session are issued in the order in which the
\* viewer messages that cause them arrived: no call of an earlier message,
\* the second call of a pointer-down included, is issued after a call of a
\* later message.
C15_CallsInArrivalOrder ==
  \A i, j \in DOMAIN input.calls :
    i < j => input.calls[i].k <= input.calls[j].k

\* Session id has no handle and an engine of its own that was closed.
TornDown(id) ==
  /\ ~MapHas(registry, id)
  /\ \E e \in Engines : engines[e].sid = id /\ ~engines[e].alive

\* C16: a pointer, key or scroll message handled for a session that was
\* stopped, its page torn down, is discarded silently: the dispatcher
\* returns without an error, makes no engine call and changes no status.
C16_StaleEventDiscarded ==
  [][\A w \in Conns :
       (inbox[w] # <<>> /\ inbox'[w] = Tail(inbox[w]) /\ TornDown(conn[w].sid))
       => /\ last'.op \in {"mouse", "key", "scroll"}
          /\ last'.res = "ok"
          /\ input'.calls = input.calls
          /\ status' = status]_vars

\* The pointer moves of the viewers, as issued to the engine.
Moves == {i \in DOMAIN input.calls : input.calls[i].call = "move"}

\* v is the integer nearest to p * extent / size, a half going up.
Nearest(v, p, size, extent) ==
  LET d == 2 * (v * size - p * extent) IN -size < d /\ d <= size

\* C17 as stated: a pointer event at (x, y) of a surface of size (w, h) is
\* applied to the engine at exactly (x * W / w, y * H / h).
C17_ExactRescale ==
  \A i \in Moves :
    LET c == input.calls[i]
        vp == Viewport["s1"]
    IN /\ c.args[1] * c.surf.w = c.at.x * vp.width
       /\ c.args[2] * c.surf.h = c.at.y * vp.height

\* C17, amended: the pointer is moved to the integers nearest to
\* (x * W / w, y * H / h), and a pointer-down is applied right after the
\* move of its own event.
C17_RoundedRescale ==
  /\ \A i \in Moves :
       LET c == input.calls[i]
           vp == Viewport["s1"]
       IN /\ Nearest(c.args[1], c.at.x, c.surf.w, vp.width)
          /\ Nearest(c.args[2], c.at.y, c.surf.h, vp.height)
  /\ \A i \in DOMAIN input.calls :
       input.calls[i].call = "down"
       => /\ i - 1 \in Moves
          /\ input.calls[i - 1].k = input.calls[i].k

C17_Witness ==
  \E i \in DOMAIN input.calls :
    /\ input.calls[i].call = "down"
    /\ input.calls[i].surf = [w |-> 700, h |-> 500]
    /\ input.calls[i - 1].args = <<913, 216>>

\* The step applies the click of the call or message in slot t.
ClickApplied(t) ==
  /\ Alive(tasks[t].eng)
  /\ \/ tasks[t].pc = "ck_click"
     \/ /\ tasks[t].pc = "ev_call"
        /\ tasks[t].todo = <<>>
        /\ tasks[t].ev.type \in {"mousePressed", "mouseReleased"}
  /\ tasks'[t] # tasks[t]

\* The engine calls a click or pointer message makes before saveCookies.
CallsOf(tk) == IF tk.op = "click" THEN <<"click">> ELSE Steps(tk.ev.type)

\* C18: the step that applies a pointer click (click(x, y), pointer-down,
\* pointer-up) starts a cookie synchronisation of the same session, and a
\* synchronisation made for a click runs only when every engine call of the
\* click has been applied.
C18_SyncAfterClick ==
  /\ [][\A t \in Tasks :
          ClickApplied(t)
          => /\ tasks'[t].pc = "sc_harvest"
             /\ tasks'[t].sid = tasks[t].sid
             /\ tasks'[t].eng = tasks[t].eng]_vars
  /\ [](\A t \in Tasks :
          (tasks[t].op \in {"click", "mouse"} /\ tasks[t].pc \in SyncPcs)
          => tasks[t].log = CallsOf(tasks[t]))

C18_Witness ==
  \E t \in Tasks :
    /\ tasks[t].op = "mouse"
    /\ tasks[t].ev.type = "mousePressed"
    /\ tasks[t].log = <<"move", "down">>
    /\ tasks[t].pc = "sc_clear"

\* The periodic timer that the tick in slot t belongs to.
TimerOf(t) == [sid |-> tasks[t].sid, eng |-> tasks[t].eng]

\* C19: a tick of the periodic timer of a session that finds the handle it
\* was created for closed by a stop, no handle registered, or a persisted
\* status other than running, ends with the timer cancelled, so that no
\* timer keeps ticking for a session that was stopped.
C19_TimerCancelsItself ==
  [][\A t \in Tasks :
       (/\ tasks[t].op = "tick"
        /\ tasks'[t].pc = "idle"
        /\ faults' = faults
        /\ \/ ~Alive(tasks[t].eng)
           \/ ~MapHas(registry, tasks[t].sid)
           \/ status[tasks[t].sid] # "running")
       => TimerOf(t) \notin timers']_vars

\* C20: when no call is in flight and no call has failed, every session
\* with a registered handle and persisted status running has a periodic
\* cookie-sync timer, also after pause, a timer tick and resume.
C20_RunningHasTimer ==
  (Quiet /\ faults = 0)
  => \A id \in Ids :
       (MapHas(registry, id) /\ status[id] = "running")
       => \E tm \in timers : tm.sid = id

\* C21: when the restore at process start-up has listed the sessions and
\* returned, startSession has been called for every session whose persisted
\* status is running, whichever user owns it.
C21_RestoreStartsAllRunning ==
  (last.op = "restore" /\ "listed" \in Range(last.log))
    => \A id \in Ids : status[id] = "running" => id \in Range(last.log)

\* The process has exited through a shutdown none of whose closes failed.
CleanShutdown == ~up /\ last.op = "cleanup" /\ "fail" \notin Range(last.log)

\* C22: after a clean shutdown no engine process that the manager launched
\* is still alive.
C22_NoEngineSurvivesShutdown ==
  CleanShutdown => \A e \in Engines : ~Alive(e)

\* C23: when a start, navigate, back, forward or reload has thrown because
\* its navigation timed out, the engine the call worked on is registered as
\* the handle of its session or is closed.
C23_NoStrayEngineAfterTimeout ==
  (last.res = "err" /\ "timeout" \in Range(last.log))
    => ([sid |-> last.sid, eng |-> last.eng] \in registry \/ ~Alive(last.eng))

\* The same for the navigations of a running session alone.
C23_RunningSessionOnly ==
  last.op \in {"navigate", "back", "forward", "reload"}
    => C23_NoStrayEngineAfterTimeout

\* The operations that need a registered handle.
HandleOps ==
  {"pause", "navigate", "back", "forward", "reload", "click", "type", "key",
   "upload", "shot", "url", "sub"}

\* The step is a call of one of them on a session without a handle.
CalledWithoutHandle ==
  /\ last' # last
  /\ last'.op \in HandleOps
  /\ last'.from = "idle"
  /\ ~MapHas(registry, last'.sid)

\* C24: pause, navigate, goBack, goForward, refresh, click, typeText,
\* pressKey, uploadFile, getScreenshot, getCurrentUrl and subscribe on a
\* session without a registered handle throw "Session not running" at once
\* and change nothing: no engine is launched, and the registry, the persisted
\* status, the stored URL, the stored cookies and the timers stay as they
\* were; such a call is never carried on without a handle.
C24_NotRunningChangesNothing ==
  /\ [][CalledWithoutHandle
          => /\ last'.res = "err"
             /\ last'.msg = "Session not running"
             /\ UNCHANGED <<status, stored, registry, engines, timers, url>>]_vars
  /\ [](\A t \in Tasks :
          (InFlight(t) /\ tasks[t].op \in HandleOps) => tasks[t].eng # 0)

\* Session s1 was started, navigated and stopped; a navigate made after
\* that has thrown "Session not running".
C24_Witness ==
  /\ last.op = "navigate" /\ last.from = "idle"
  /\ last.msg = "Session not running"
  /\ TornDown("s1")
  /\ status["s1"] = "stopped"
  /\ url["s1"] = Target

\* C25: when a start, pause, resume or stop of a session has thrown, the
\* persisted status of the session is error.
C25_FailurePersistsError ==
  (last.res = "err" /\ last.op \in {"start", "pause", "resume", "stop"})
    => status[last.sid] = "error"

\* The step is one of the saveCookies of slot t in which its awaited call is
\* rejected: page.cookies() on a page that is gone, or a store call.
SyncFails(t) ==
  /\ tasks[t].pc \in SyncPcs
  /\ tasks'[t] # tasks[t]
  /\ \/ faults' # faults
     \/ tasks[t].pc = "sc_harvest" /\ ~Alive(tasks[t].eng)

\* Where the caller of saveCookies goes on when saveCookies has returned.
Continuation(tk) ==
  CASE tk.ret = "st_register" -> "st_running"
    [] tk.ret \in {"pa_update", "sp_close", "cl_close"} -> tk.ret
    [] OTHER -> "idle"

\* C26: a cookie synchronisation whose harvest, clear or insert is rejected
\* is contained: in that step the enclosing start, navigate, click, pause,
\* stop, tick or shutdown goes on as after a synchronisation that succeeded
\* (a call that ends there returns without an error), no status changes, the
\* registry changes only by the registration a start makes after its
\* synchronisation, no engine changes and no row of another session changes.
C26_SyncFailureContained ==
  [][\A t \in Tasks :
       SyncFails(t)
       => LET tk == tasks[t] IN
          /\ tasks'[t].pc = Continuation(tk)
          /\ tasks'[t].pc = "idle" => (last'.op = tk.op /\ last'.res = "ok")
          /\ status' = status
          /\ registry' = IF tk.ret = "st_register" THEN MapSet(registry, tk.sid, tk.eng)
                         ELSE registry
          /\ engines' = engines /\ timers' = timers /\ url' = url /\ up' = up
          /\ \A id \in Ids \ {tk.sid} : stored'[id] = stored[id]]_vars

\* The insert of the synchronisation of a stop was rejected, and the stop
\* has gone on to close the engine and has returned: s1 is stopped.
C26_Witness ==
  /\ last.op = "stop" /\ last.res = "ok"
  /\ ~synced["s1"].ok
  /\ synced["s1"].by = "start"
  /\ faults = 1
  /\ status["s1"] = "stopped"
  /\ TornDown("s1")

\* The request of connection w carries the identity of the owner of the
\* session it names.
Authorised(w) == conn[w].user # "anon" /\ Owner[conn[w].sid] = conn[w].user

\* Connection w has asked for a session that its request may not watch.
Intruder(w) == conn[w].st # "new" /\ conn[w].sid \in Ids /\ ~Authorised(w)

\* C27: for a viewer connection that carries no identity or the identity of
\* a user who does not own the session, no engine operation is performed:
\* every step of its handler leaves the sessions, the engines, the registry
\* and the timers as they are, its handler never enters a start or a
\* subscribe, the connection is in no subscriber set, none of its messages
\* reaches a dispatcher, and once its handler has ended the connection is
\* closed.
C27_IntruderTouchesNothing ==
  /\ [][\A t \in Tasks :
          (tasks[t].op = "connect" /\ Intruder(tasks[t].ws) /\ tasks'[t] # tasks[t])
          => UNCHANGED <<status, stored, registry, engines, timers, url, inbox, input>>]_vars
  /\ [](\A w \in Conns :
          Intruder(w)
          => /\ \A t \in Tasks : tasks[t].ws = w => tasks[t].pc \in {"ws_auth", "ws_get"}
             /\ \A e \in Engines : w \notin engines[e].clients
             /\ inbox[w] = <<>>
             /\ conn[w].st \in {"checking", "closed"}
             /\ (\A t \in Tasks : tasks[t].ws # w) => conn[w].st = "closed")

\* User u2 has connected to session s1 of admin and has sent a message
\* while the connection was checked; the connection was closed, and no
\* engine was launched.  The owner of s2 has connected to it and is watching.
C27_Witness ==
  /\ conn["w1"].sid = "s1" /\ conn["w1"].user = "u2"
  /\ conn["w1"].st = "closed" /\ conn["w1"].cause = "auth"
  /\ input.unheard["w1"] = 1
  /\ conn["w2"].sid = "s2" /\ conn["w2"].user = "u2" /\ conn["w2"].st = "open"
  /\ \A e \in Engines : engines[e].sid = "s2"

\* C28: two connections that the server has closed for different causes
\* (missing session id, failed identity or ownership check, internal
\* failure) were closed with different close codes.
C28_DistinctCloseCodes ==
  \A v, w \in Conns :
    (conn[v].cause # "none" /\ conn[w].cause # "none" /\ conn[v].cause # conn[w].cause)
      => conn[v].code # conn[w].code

\* The step is a step of an operation on session id: a call on id is made,
\* goes on or returns.
Acts(id) ==
  \/ \E t \in Tasks : tasks'[t] # tasks[t] /\ id \in {tasks[t].sid, tasks'[t].sid}
  \/ last' # last /\ last'.sid = id

\* What isolation protects of session id: its registry entry, its persisted
\* status, its stored cookies, and the subscriber set and capture state of
\* its engines.
View(id) ==
  [entry |-> {h \in registry : h.sid = id},
   status |-> status[id],
   cookies |-> stored[id],
   cast |-> {<<e, engines[e].alive, engines[e].clients, engines[e].cdp,
               engines[e].chans, engines[e].casting>> :
               e \in {x \in Engines : engines[x].sid = id}}]

C30_StatusMatchesHandle ==
  (Quiet /\ faults = 0)
    => \A id \in Ids : (status[id] \in {"running", "paused"}) <=> MapHas(registry, id)

\* The handle registered for session id, and whether frame capture runs on
\* its control channel.
HandleOf(id) == engines[MapGet(registry, id).eng]
Capturing(id) ==
  /\ MapHas(registry, id)
  /\ Alive(MapGet(registry, id).eng)
  /\ HandleOf(id).cdp # 0
  /\ HandleOf(id).cdp \in HandleOf(id).chans
  /\ HandleOf(id).cdp \in HandleOf(id).casting

\* C31: once a viewer connection that passed the identity and ownership
\* checks has been attached, a handle is registered for its session (the
\* handler has started the session when it had none), the connection is in
\* the subscriber set of that handle, and frame capture is active.
C31_AttachedViewerIsServed ==
  \A w \in Conns :
    conn[w].st = "open"
      => /\ Authorised(w)
         /\ MapHas(registry, conn[w].sid)
         /\ w \in HandleOf(conn[w].sid).clients
         /\ Capturing(conn[w].sid)

\* The handler of viewer w1, the owner of session s2, has started the
\* stopped session and has returned from the subscribe that opened the
\* control channel; viewer w2 has been attached to session s1 before.
C31_Witness ==
  /\ last.op = "connect" /\ last.res = "ok" /\ last.ws = "w1"
  /\ last.from = "ss_start"
  /\ conn["w1"].st = "open" /\ conn["w1"].sid = "s2" /\ conn["w1"].user = "u2"
  /\ status["s2"] = "running"
  /\ conn["w2"].st = "open" /\ conn["w2"].sid = "s1"

\* The step returns from the startSession that slot t was running (called
\* directly or by resume) after it had launched an engine.
StartReturns(t) ==
  /\ StartInFlight(t)
  /\ tasks[t].eng # 0
  /\ tasks'[t].pc = "idle"

\* C32: once a start has returned, the engine it launched is referenced by
\* the registered handle of its session or has been closed, also when the
\* start failed after the launch (navigation timeout, cookie import error)
\* and when a concurrent start of the same id registered over it.
C32_NoEngineOutsideRegistry ==
  [][\A t \in Tasks :
       StartReturns(t)
         => \/ [sid |-> tasks[t].sid, eng |-> tasks[t].eng] \in registry'
            \/ ~engines'[tasks[t].eng].alive]_vars

\* A startScreencast or stopScreencast of session id is in flight.
CastInFlight(id) ==
  \E t \in Tasks :
    InFlight(t) /\ tasks[t].sid = id /\ tasks[t].op \in {"sub", "unsub", "connect"}

\* C33: whenever no subscribe or unsubscribe of a session is in flight and
\* the subscriber set of its handle holds an open viewer, frame capture is
\* active on a live control channel, also when a subscribe arrived while
\* the unsubscribe of the previous last viewer was suspended between
\* stopping the capture and clearing the control channel.
C33_OpenViewerHasCapture ==
  \A id \in Ids :
    (/\ faults = 0
     /\ MapHas(registry, id)
     /\ ~CastInFlight(id)
     /\ \E w \in HandleOf(id).clients : conn[w].st = "open")
    => Capturing(id)

\* The viewers in the subscriber set of the handle of session id whose
\* socket is open, or has closed with the close handler still to run.
LiveViewers(id) ==
  {w \in HandleOf(id).clients : conn[w].st \in {"joining", "open", "closing"}}

\* C34: the subscriber set of a registered handle only holds viewer
\* connections that are open or whose close will run the unsubscribe: a
\* connection whose subscribe failed, or that closed while its subscribe
\* was in flight, does not stay in the set, and capture does not go on for
\* a set without a live viewer.
C34_OnlyLiveSubscribers ==
  \A id \in Ids :
    (MapHas(registry, id) /\ ~CastInFlight(id))
      => /\ HandleOf(id).clients = LiveViewers(id)
         /\ LiveViewers(id) = {} => HandleOf(id).casting = {}

\* C35: at most one periodic cookie-sync timer is active per session id at
\* any time, over any sequence of start and stop calls none of which has
\* failed, also when a session is stopped and started again before the next
\* tick of the previous timer.
C35_OneTimerPerSession ==
  faults = 0
    => \A id \in Ids : Cardinality({tm \in timers : tm.sid = id}) <= 1

\* C36: the frames captured from the engine of a session are forwarded only
\* to connections that are in the subscriber set of that session's handle
\* at that moment: a viewer attached to another session never receives
\* them, and a viewer receives no frame once it has been unsubscribed.
C36_FramesStayInSession ==
  [][\A w \in Conns :
       rx'[w] # rx[w]
         => /\ relay.pend # <<>>
            /\ w \in engines[Head(relay.pend).eng].clients
            /\ conn[w].sid = engines[Head(relay.pend).eng].sid
            /\ conn[w].st \notin {"new", "closed"}]_vars

\* Viewer w1 has received the first frame, captured from session s1, and
\* has been unsubscribed; viewer w2, attached to session s2, has received
\* the second frame, captured from the engine of s2, and nothing else.
C36_Witness ==
  /\ conn["w1"].sid = "s1" /\ conn["w1"].st = "closed" /\ rx["w1"] = <<1>>
  /\ conn["w2"].sid = "s2" /\ conn["w2"].st = "open" /\ rx["w2"] = <<2>>
  /\ relay.fwded = {1, 2}
  /\ MapHas(registry, "s1") /\ Alive(MapGet(registry, "s1").eng)

\* The step belongs to the shutdown: cleanup is entered, goes on, or ends
\* with the exit of the process.
ShutdownStep ==
  \/ \E t \in Tasks : tasks[t].op = "cleanup" \/ tasks'[t].op = "cleanup"
  \/ up /\ ~up'

\* The frame of the shutdown: no step of it changes a persisted status or a
\* stored URL, and at the exit the registry is empty.
C37_ShutdownKeepsStatus ==
  [][ShutdownStep
       => /\ status' = status
          /\ url' = url
          /\ ~up' => registry' = {}]_vars

\* C37: the shutdown empties the registry and leaves the persisted status
\* of every session as it is, so that a session that was running at the
\* shutdown still has status running in the store and is picked up by the
\* restore of the next start-up: once that restore has listed the sessions
\* and returned without a failure, every session with status running has
\* a registered handle again.
C37_RunningSurvivesShutdown ==
  /\ C37_ShutdownKeepsStatus
  /\ [](\A id \in Ids :
          (/\ up /\ faults = 0
           /\ last.op = "restore" /\ "listed" \in Range(last.log)
           /\ status[id] = "running")
          => MapHas(registry, id))

\* C38: when the navigation of navigate(id, url) fails in the engine
\* (timeout or navigation error), the call ends there and the stored URL,
\* the stored cookies and the persisted status of the session are as
\* before; the stored URL becomes url only in the step that follows a
\* navigation that succeeded, and no step of navigate changes a status.
C38_FailedNavigateChangesNothing ==
  [][\A t \in Tasks :
       tasks[t].op = "navigate"
         => /\ status' = status
            /\ tasks[t].pc = "nv_goto" => (url' = url /\ stored' = stored)
            /\ (tasks[t].pc = "nv_goto" /\ faults' # faults)
                 => (tasks'[t].pc = "idle" /\ last'.res = "err")
            /\ "timeout" \notin Range(tasks'[t].log)
            /\ url' # url
                 => /\ tasks[t].pc = "nv_update"
                    /\ url' = [url EXCEPT ![tasks[t].sid] = Target]]_vars

\* A navigate of the running session s1 has succeeded and stored its URL
\* and a cookie; a second navigate has timed out and has returned with the
\* stored URL, the stored cookie and the status as they were.
C38_Witness ==
  /\ last.op = "navigate" /\ last.sid = "s1" /\ last.res = "err"
  /\ last.from = "nv_goto" /\ "timeout" \in Range(last.log)
  /\ url["s1"] = Target
  /\ stored["s1"] # <<>>
  /\ status["s1"] = "running"
  /\ MapHas(registry, "s1")
====
